---- MODULE Spec2Model ----
(***************************************************************************)
(* Route optimisation engine of the fleet fuel-management application:    *)
(* route_optimizer/services.py (RouteOptimizationService) and the API     *)
(* views of route_optimizer/views.py that drive it.                       *)
(*                                                                         *)
(* Python lists are modelled as TLA+ sequences, so list index i of the    *)
(* source is position i + 1 here.  Strings that the code parses are       *)
(* sequences of one-character strings.                                     *)
(***************************************************************************)
EXTENDS Integers, Sequences, FiniteSets, TLC

VARIABLES
    stops,        \* create_fallback_optimization: the argument
    fb,           \* create_fallback_optimization: its locals and position
    coordinates,  \* _sample_route_points: the polyline argument
    max_samples,  \* _sample_route_points: the max_samples argument
    sampled,      \* _sample_route_points: position and returned list
    text,         \* _extract_json_from_text: the argument
    extracted,    \* _extract_json_from_text: position and returned list
    gcall,        \* gemini_optimize_route: arguments, position, locals, result
    llmRequests,  \* number of POSTs sent to the LLM gateway
    request,      \* api_ai_optimize_route: the request body and settings
    response,     \* api_ai_optimize_route: how the request ended
    fallbackRuns, \* number of calls of create_fallback_optimization by the views
    fcall,        \* find_fuel_stations_along_route: argument, position, locals, result
    poi,          \* the places gateway: its answer to the query of each sample point
    poiQueries,   \* the queries sent to the places gateway, in task order
    geoapify,     \* the geocoding/routing gateway: its answer and the GETs it received
    svc,          \* search_places / calculate_route: arguments, position and result
    routeReq,     \* api_calculate_route: the request body
    routeResp,    \* api_calculate_route: how the request ended
    users,        \* accounts: the rows of CustomUser
    companies,    \* accounts: the names of the rows of Company
    session,      \* accounts: the user of the session (request.user)
    authReq,      \* login_register_view: the request
    authResp,     \* login_register_view: how the request ended
    routeTable,   \* routes: the rows of Route, the id of a row is its position
    assignmentTable, \* routes: the rows of RouteAssignment, the id is the position
    workers,      \* routes: the request each worker handles and how far it is
    mode,         \* routes: requests are handled one at a time or concurrently
    taken,        \* routes: the number of requests taken so far, the clock
    receiptTable, \* receipts: the rows of FuelReceipt, the id of a row is its position
    ocr           \* receipts: the last call, what it returned and the instance it left

vars == <<stops, fb, coordinates, max_samples, sampled, text, extracted,
          gcall, llmRequests, request, response, fallbackRuns, fcall, poi,
          poiQueries, geoapify, svc, routeReq, routeResp, users, companies,
          session, authReq, authResp, routeTable, assignmentTable, workers, mode,
          taken, receiptTable, ocr>>

fallbackVars == <<stops, fb>>
sampleVars   == <<coordinates, max_samples, sampled>>
extractVars  == <<text, extracted>>
geminiVars   == <<gcall, llmRequests>>
apiVars      == <<request, response, fallbackRuns>>
finderVars   == <<fcall, poi, poiQueries>>
routingVars  == <<geoapify, svc, routeReq, routeResp>>
authVars     == <<users, companies, session, authReq, authResp>>
routesVars   == <<routeTable, assignmentTable, workers, mode, taken>>
receiptVars  == <<receiptTable, ocr>>

(***************************************************************************)
(* Bounds of the model.                                                    *)
(***************************************************************************)
MaxStops == 4

\* Seqs(S, n): every sequence over S of length n
Seqs(S, n) == [1..n -> S]

\* range(1, n + 1) as a list
RangeList(n) == [i \in 1..n |-> i]

\* the set of elements of a list
Elems(s) == {s[i] : i \in 1..Len(s)}

\* s without the element at (1-based) position i
RemoveAt(s, i) == [j \in 1..(Len(s) - 1) |-> IF j < i THEN s[j] ELSE s[j + 1]]

(***************************************************************************)
(* calculate_distance: the Haversine formula.  Its value is tabulated, in  *)
(* metres rounded to the nearest integer, over a grid of (lat, lon) points *)
(* by running the source's formula in IEEE doubles; the rounding keeps     *)
(* every < and = between the tabulated values.  For the antipodal pair     *)
(* (8, 0), (-8, 180) the double a exceeds 1 and math.sqrt(1 - a) raises    *)
(* ValueError("math domain error"): that outcome is DomainError.           *)
(***************************************************************************)
Grid == {<<0, 0>>, <<0, 1>>, <<0, 10>>, <<1, 1>>, <<8, 0>>, <<-8, 180>>}

DomainError == -1

HaversineMetres(p, q) ==
    CASE p = q -> 0
      [] {p, q} = {<<0, 0>>, <<0, 1>>}     -> 111195
      [] {p, q} = {<<0, 0>>, <<0, 10>>}    -> 1111949
      [] {p, q} = {<<0, 0>>, <<1, 1>>}     -> 157249
      [] {p, q} = {<<0, 0>>, <<8, 0>>}     -> 889559
      [] {p, q} = {<<0, 0>>, <<-8, 180>>}  -> 19125527
      [] {p, q} = {<<0, 1>>, <<0, 10>>}    -> 1000754
      [] {p, q} = {<<0, 1>>, <<1, 1>>}     -> 111195
      [] {p, q} = {<<0, 1>>, <<8, 0>>}     -> 896437
      [] {p, q} = {<<0, 1>>, <<-8, 180>>}  -> 19118650
      [] {p, q} = {<<0, 10>>, <<1, 1>>}    -> 1006862
      [] {p, q} = {<<0, 10>>, <<8, 0>>}    -> 1421156
      [] {p, q} = {<<0, 10>>, <<-8, 180>>} -> 18593930
      [] {p, q} = {<<1, 1>>, <<8, 0>>}     -> 786209
      [] {p, q} = {<<1, 1>>, <<-8, 180>>}  -> 19228878
      [] {p, q} = {<<8, 0>>, <<-8, 180>>}  -> DomainError

calculate_distance(lat1, lon1, lat2, lon2) ==
    HaversineMetres(<<lat1, lon1>>, <<lat2, lon2>>)

(***************************************************************************)
(* create_fallback_optimization: greedy nearest neighbour.                 *)
(***************************************************************************)
\* float('inf'), and the comparison distance < shortest_distance against it
Inf == -2
Less(d, s) == IF s = Inf THEN TRUE ELSE d < s

\* a stop of the request: a dict with 'name', 'lat', 'lon'
Stop(pt, name) == [name |-> name, lat |-> pt[1], lon |-> pt[2]]

\* `for idx, stop_id in enumerate(unvisited)`: acc holds nearest_idx (1-based),
\* shortest_distance, the number of calculate_distance calls, and whether one
\* of them raised
RECURSIVE ScanUnvisited(_, _, _, _, _)
ScanUnvisited(stps, current, unvisited, idx, acc) ==
    IF idx > Len(unvisited) THEN acc
    ELSE LET current_stop   == stps[current]
             candidate_stop == stps[unvisited[idx]]
             distance == calculate_distance(current_stop.lat, current_stop.lon,
                                            candidate_stop.lat, candidate_stop.lon)
         IN  IF distance = DomainError
             THEN [acc EXCEPT !.calls = @ + 1, !.raised = TRUE]
             ELSE ScanUnvisited(stps, current, unvisited, idx + 1,
                    IF Less(distance, acc.shortest_distance)
                    THEN [acc EXCEPT !.calls = @ + 1,
                                     !.shortest_distance = distance,
                                     !.nearest_idx = idx]
                    ELSE [acc EXCEPT !.calls = @ + 1])

\* unvisited.pop(nearest_idx): the list that is left
PopRest(unvisited, nearest_idx) == RemoveAt(unvisited, nearest_idx)

\* the guard written `if len(stops) <= 1`
FallbackIsTrivial_OnlyUpToOne(stps) == Len(stps) <= 1

\* `if len(stops) <= 2`
FallbackIsTrivial(stps) == Len(stps) <= 2

\* the locals before create_fallback_optimization runs
FallbackEntry ==
    [pc |-> "entry", unvisited |-> <<>>, optimized |-> <<>>, current |-> 0,
     steps |-> 0, calls |-> 0]

\* from entry to the first test of `while unvisited`
FallbackBegin(stps) ==
    IF FallbackIsTrivial(stps)
    THEN [FallbackEntry EXCEPT !.pc = "returned", !.optimized = RangeList(Len(stps))]
    ELSE [FallbackEntry EXCEPT !.pc = "loop",
                               !.unvisited = RemoveAt(RangeList(Len(stps)), 1),
                               !.optimized = <<1>>,
                               !.current = 1]

\* one test of `while unvisited` and, when it is true, one iteration
FallbackIter(stps, st) ==
    IF st.unvisited = <<>>
    THEN [st EXCEPT !.pc = "returned"]
    ELSE LET acc == ScanUnvisited(stps, st.current, st.unvisited, 1,
                        [nearest_idx |-> 1, shortest_distance |-> Inf,
                         calls |-> 0, raised |-> FALSE])
         IN  IF acc.raised
             THEN [st EXCEPT !.pc = "raised", !.calls = @ + acc.calls]
             ELSE [st EXCEPT !.current = st.unvisited[acc.nearest_idx],
                             !.unvisited = PopRest(st.unvisited, acc.nearest_idx),
                             !.optimized = Append(@, st.unvisited[acc.nearest_idx]),
                             !.steps = @ + 1,
                             !.calls = @ + acc.calls]

RECURSIVE FallbackRun(_, _)
FallbackRun(stps, st) ==
    IF st.pc # "loop" THEN st ELSE FallbackRun(stps, FallbackIter(stps, st))

\* the whole call: [pc |-> "returned" or "raised", optimized |-> the order, ...]
create_fallback_optimization(stps) == FallbackRun(stps, FallbackBegin(stps))

\* the stops the heuristic is run on: every stop has coordinates
FallbackStops == {Stop(pt, "A") : pt \in Grid}

FallbackIdle == stops = <<>> /\ fb = FallbackEntry

FallbackStart ==
    /\ fb.pc = "entry"
    /\ fb' = FallbackBegin(stops)
    /\ UNCHANGED <<stops, sampleVars, extractVars, geminiVars, apiVars, finderVars, routingVars, authVars, routesVars, receiptVars>>

FallbackSelect ==
    /\ fb.pc = "loop"
    /\ fb' = FallbackIter(stops, fb)
    /\ UNCHANGED <<stops, sampleVars, extractVars, geminiVars, apiVars, finderVars, routingVars, authVars, routesVars, receiptVars>>

(***************************************************************************)
(* _sample_route_points.  A coordinate is a <<lon, lat>> pair.             *)
(***************************************************************************)
MaxPoints == 5
MaxSamplesArg == 3

RoutePoints == {<<0, 0>>, <<1, 0>>, <<10, 0>>}

Max(a, b) == IF a >= b THEN a ELSE b

\* len(range(0, total_points, step))
RangeCount(total_points, step) == (total_points - 1) \div step + 1

\* the stride of the sampler: max(1, total_points // max_samples)
SampleStep(total_points, maxs) == Max(1, total_points \div maxs)

\* the sampler without lines 171-173: the last coordinate is never appended
_sample_route_points_NoLastPoint(coords, maxs) ==
    LET total_points == Len(coords) IN
    IF total_points <= maxs THEN coords
    ELSE LET step == SampleStep(total_points, maxs)
         IN  [k \in 1..RangeCount(total_points, step) |-> coords[(k - 1) * step + 1]]

\* a sampler that thins every polyline, short ones too: every second
\* coordinate and the last one
_sample_route_points_ThinsShortOnes(coords, maxs) ==
    LET total_points == Len(coords) IN
    IF total_points = 0 THEN coords
    ELSE LET strided == [k \in 1..RangeCount(total_points, 2) |-> coords[(k - 1) * 2 + 1]]
         IN  IF strided[Len(strided)] # coords[total_points]
             THEN Append(strided, coords[total_points])
             ELSE strided

_sample_route_points(coords, maxs) ==
    LET total_points == Len(coords) IN
    IF total_points <= maxs THEN coords
    ELSE LET step    == SampleStep(total_points, maxs)
             strided == [k \in 1..RangeCount(total_points, step) |->
                            coords[(k - 1) * step + 1]]
         IN  IF strided[Len(strided)] # coords[total_points]
             THEN Append(strided, coords[total_points])
             ELSE strided

SampleEntry == [pc |-> "entry", out |-> <<>>]

SampleIdle == coordinates = <<>> /\ max_samples = 1 /\ sampled = SampleEntry

SampleRoutePoints ==
    /\ sampled.pc = "entry"
    /\ sampled' = [pc |-> "returned", out |-> _sample_route_points(coordinates, max_samples)]
    /\ UNCHANGED <<coordinates, max_samples, fallbackVars, extractVars, geminiVars, apiVars, finderVars, routingVars, authVars, routesVars, receiptVars>>

(***************************************************************************)
(* _extract_json_from_text.  A str is a sequence of characters.            *)
(***************************************************************************)
Digits == {"0", "1", "2", "3", "4", "5", "6", "7", "8", "9"}

DigitVal(c) ==
    CASE c = "0" -> 0 [] c = "1" -> 1 [] c = "2" -> 2 [] c = "3" -> 3 [] c = "4" -> 4
      [] c = "5" -> 5 [] c = "6" -> 6 [] c = "7" -> 7 [] c = "8" -> 8 [] c = "9" -> 9

\* what str.strip() removes and what \s matches
Whitespace == {" ", "\n", "\t", "\r", "\f"}

\* the whitespace json.loads accepts between tokens
JsonWhitespace == {" ", "\n", "\t", "\r"}

\* the character class [\d,\s]
InArrayClass(c) == c \in Digits \/ c = "," \/ c \in Whitespace

RECURSIVE StripLeft(_, _)
StripLeft(t, ws) == IF t # <<>> /\ Head(t) \in ws THEN StripLeft(Tail(t), ws) ELSE t

RECURSIVE StripRight(_, _)
StripRight(t, ws) ==
    IF t # <<>> /\ t[Len(t)] \in ws THEN StripRight(SubSeq(t, 1, Len(t) - 1), ws) ELSE t

\* text.strip()
Strip(t) == StripRight(StripLeft(t, Whitespace), Whitespace)

\* the first position >= k of t that holds no character of [\d,\s]
RECURSIVE ArrayClassEnd(_, _)
ArrayClassEnd(t, k) ==
    IF k <= Len(t) /\ InArrayClass(t[k]) THEN ArrayClassEnd(t, k + 1) ELSE k

\* the pattern written \[[\d,\s]*\]: it also matches "[]"
ArrayMatchesAt_AllowsEmpty(t, i) ==
    /\ t[i] = "["
    /\ LET e == ArrayClassEnd(t, i + 1)
       IN  e <= Len(t) /\ t[e] = "]"

\* \[[\d,\s]+\] matches at position i
ArrayMatchesAt(t, i) ==
    /\ t[i] = "["
    /\ LET e == ArrayClassEnd(t, i + 1)
       IN  e > i + 1 /\ e <= Len(t) /\ t[e] = "]"

\* re.search(r'\[[\d,\s]+\]', text) scanning from position i: the matched
\* substring, or <<>> for None (a match is never empty)
RECURSIVE re_search_array(_, _)
re_search_array(t, i) ==
    IF i > Len(t) THEN <<>>
    ELSE IF ArrayMatchesAt(t, i) THEN SubSeq(t, i, ArrayClassEnd(t, i + 1))
    ELSE re_search_array(t, i + 1)

\* t split at every "," (str.split(','))
RECURSIVE SplitCommas(_)
SplitCommas(t) ==
    IF \A i \in 1..Len(t) : t[i] # "," THEN <<t>>
    ELSE LET k == CHOOSE i \in 1..Len(t) : t[i] = "," /\ \A j \in 1..(i - 1) : t[j] # ","
         IN  <<SubSeq(t, 1, k - 1)>> \o SplitCommas(SubSeq(t, k + 1, Len(t)))

\* a JSON integer literal without sign: digits, no leading zero
IsJsonInt(p) ==
    /\ p # <<>>
    /\ \A i \in 1..Len(p) : p[i] \in Digits
    /\ (Len(p) > 1 => p[1] # "0")

\* int(n) of a string of digits
RECURSIVE IntOfDigits(_)
IntOfDigits(p) ==
    IF p = <<>> THEN 0
    ELSE IntOfDigits(SubSeq(p, 1, Len(p) - 1)) * 10 + DigitVal(p[Len(p)])

JsonStrip(t) == StripRight(StripLeft(t, JsonWhitespace), JsonWhitespace)

\* json.loads of a string the regular expression matched ("[", characters of
\* [\d,\s], "]"): ok is FALSE for JSONDecodeError
json_loads_array(arr) ==
    LET inner  == SubSeq(arr, 2, Len(arr) - 1)
        pieces == SplitCommas(inner)
        items  == [i \in 1..Len(pieces) |-> JsonStrip(pieces[i])]
    IN  IF JsonStrip(inner) = <<>> THEN [ok |-> TRUE, value |-> <<>>]
        ELSE IF \A i \in 1..Len(items) : IsJsonInt(items[i])
        THEN [ok |-> TRUE, value |-> [i \in 1..Len(items) |-> IntOfDigits(items[i])]]
        ELSE [ok |-> FALSE, value |-> <<>>]

\* the first position >= k of t that holds no digit
RECURSIVE DigitRunEnd(_, _)
DigitRunEnd(t, k) == IF k <= Len(t) /\ t[k] \in Digits THEN DigitRunEnd(t, k + 1) ELSE k

\* [int(n) for n in re.findall(r'\d+', text)] scanning from position i
RECURSIVE findall_ints(_, _)
findall_ints(t, i) ==
    IF i > Len(t) THEN <<>>
    ELSE IF t[i] \in Digits
    THEN <<IntOfDigits(SubSeq(t, i, DigitRunEnd(t, i) - 1))>> \o findall_ints(t, DigitRunEnd(t, i))
    ELSE findall_ints(t, i + 1)

_extract_json_from_text(txt) ==
    IF txt = <<>> THEN <<>>
    ELSE LET t           == Strip(txt)
             array_match == re_search_array(t, 1)
             parsed      == json_loads_array(array_match)
         IN  IF array_match # <<>> /\ parsed.ok THEN parsed.value
             ELSE findall_ints(t, 1)

MaxTextLen == 6
MaxInnerLen == 3

ExtractAlphabet == {"[", "]", ",", " ", "1", "x"}

\* texts with two bracketed fragments, with or without prose between them
BracketFragments(n) == {<<"[">> \o inner \o <<"]">> : inner \in Seqs({",", " ", "0", "1"}, n)}

TwoFragmentTexts(n, m) ==
    {a \o mid \o b : a \in BracketFragments(n), b \in BracketFragments(m),
                      mid \in {<<>>, <<"x">>}}

\* "Sure! [2, 1, 3]"
SureText == <<"S", "u", "r", "e", "!", " ", "[", "2", ",", " ", "1", ",", " ", "3", "]">>

\* the texts the function is run on
IsExtractText(t) ==
    \/ \E n \in 0..MaxTextLen : t \in Seqs(ExtractAlphabet, n)
    \/ \E n \in 0..MaxInnerLen, m \in 0..MaxInnerLen : t \in TwoFragmentTexts(n, m)
    \/ t = SureText

ExtractEntry == [pc |-> "entry", out |-> <<>>]

ExtractIdle == text = <<>> /\ extracted = ExtractEntry

ExtractJsonFromText ==
    /\ extracted.pc = "entry"
    /\ extracted' = [pc |-> "returned", out |-> _extract_json_from_text(text)]
    /\ UNCHANGED <<text, fallbackVars, sampleVars, geminiVars, apiVars, finderVars, routingVars, authVars, routesVars, receiptVars>>

(***************************************************************************)
(* gemini_optimize_route.  The gateway's answer to the POST is an outcome: *)
(*   transport  "error" when session.post or reading the answer raises     *)
(*   status     the HTTP status                                            *)
(*   shape      what `await response.json()` gives for a 200:              *)
(*     "not_json"       response.json() raises                             *)
(*     "stringified"    data, a candidate or its content has no .get: the  *)
(*                      inner handler sets content_text = str(data)        *)
(*     "no_candidates"  no (or an empty, or a non-list) "candidates"       *)
(*     "no_content"     the first candidate has no "content"               *)
(*     "no_parts"       the content has no (or empty, or non-list) "parts" *)
(*     "parts"          a list of parts                                    *)
(*   texts      the "text" of each part (<<>> for a part without text),    *)
(*              or <<str(data)>> for "stringified"                         *)
(***************************************************************************)
MaxGeminiStops == 3
MaxOrderId == 4
MaxOrderLen == 4

NoName == "<no name>"

\* the guard written as `self.gemini_key is None`: an empty key passes it
KeyMissing_IsNoneOnly(key) == key = "None"

\* `not self.gemini_key`
KeyMissing(key) == key = ""

GeminiKeys == {"", "key"}

Outcome(transport, status, shape, texts) ==
    [transport |-> transport, status |-> status, shape |-> shape, texts |-> texts]

NoOutcome == Outcome("none", 0, "none", <<>>)

\* "\n".join(texts)
RECURSIVE JoinNewline(_)
JoinNewline(texts) ==
    IF texts = <<>> THEN <<>>
    ELSE IF Len(texts) = 1 THEN texts[1]
    ELSE texts[1] \o <<"\n">> \o JoinNewline(Tail(texts))

\* the parts that pass `"text" in part and part["text"]`
RECURSIVE TextsOfParts(_)
TextsOfParts(parts) ==
    IF parts = <<>> THEN <<>>
    ELSE IF Head(parts) # <<>> THEN <<Head(parts)>> \o TextsOfParts(Tail(parts))
    ELSE TextsOfParts(Tail(parts))

\* content_text after the inner try of a 200 answer: none is TRUE for None
ContentText(outcome) ==
    CASE outcome.shape = "stringified" -> [none |-> FALSE, text |-> outcome.texts[1]]
      [] outcome.shape = "parts" ->
            [none |-> FALSE, text |-> Strip(JoinNewline(TextsOfParts(outcome.texts)))]
      [] OTHER -> [none |-> TRUE, text |-> <<>>]

\* the validation without its length test
OrderIsValid_NoLengthTest(optimal_order, n) ==
    /\ optimal_order # <<>>
    /\ Elems(optimal_order) = 1..n

\* the validation of the extracted order against the stops
OrderIsValid(optimal_order, n) ==
    /\ optimal_order # <<>>
    /\ Len(optimal_order) = n
    /\ Elems(optimal_order) = 1..n

\* the values gemini_optimize_route returns
GeminiFailure(error) ==
    [kind |-> "dict", success |-> FALSE, error |-> error,
     has_order |-> FALSE, optimal_order |-> <<>>, gemini_response |-> <<>>]

GeminiSuccess(optimal_order, content_text) ==
    [kind |-> "dict", success |-> TRUE, error |-> "",
     has_order |-> TRUE, optimal_order |-> optimal_order, gemini_response |-> content_text]

GeminiNone ==
    [kind |-> "none", success |-> FALSE, error |-> "",
     has_order |-> FALSE, optimal_order |-> <<>>, gemini_response |-> <<>>]

\* a call of gemini_optimize_route before it runs
GeminiEntry(stps, key) ==
    [pc |-> "entry", stops |-> stps, key |-> key, outcome |-> NoOutcome,
     content_text |-> <<>>, validated |-> FALSE, optimal_order |-> <<>>,
     result |-> GeminiNone, raised |-> ""]

\* the two guards, then the construction of stops_info, up to the POST
GeminiUpToPost(c) ==
    IF Len(c.stops) < 3
    THEN [c EXCEPT !.pc = "returned",
                   !.result = GeminiFailure("Need at least 3 stops for AI optimization")]
    ELSE IF KeyMissing(c.key)
    THEN [c EXCEPT !.pc = "returned",
                   !.result = GeminiFailure("GEMINI_API_KEY not configured")]
    ELSE IF \E i \in 1..Len(c.stops) : c.stops[i].name = NoName
    THEN [c EXCEPT !.pc = "raised", !.raised = "KeyError"]
    ELSE [c EXCEPT !.pc = "awaiting"]

\* from the answer to the POST to the end of the function
GeminiFromAnswer(c, outcome) ==
    LET c1 == [c EXCEPT !.outcome = outcome, !.pc = "returned"]
        ct == ContentText(outcome)
        optimal_order == _extract_json_from_text(ct.text)
    IN  IF outcome.transport = "error"
        THEN [c1 EXCEPT !.result = GeminiFailure("str(e)")]
        ELSE IF outcome.status # 200
        THEN [c1 EXCEPT !.result = GeminiFailure("Gemini API Error: status")]
        ELSE IF outcome.shape = "not_json"
        THEN [c1 EXCEPT !.result = GeminiFailure("str(e)")]
        ELSE IF ct.none \/ ct.text = <<>>
        THEN [c1 EXCEPT !.result = GeminiNone]
        ELSE IF OrderIsValid(optimal_order, Len(c.stops))
        THEN [c1 EXCEPT !.content_text = ct.text, !.validated = TRUE,
                        !.optimal_order = optimal_order,
                        !.result = GeminiSuccess(optimal_order, ct.text)]
        ELSE [c1 EXCEPT !.content_text = ct.text, !.validated = TRUE,
                        !.optimal_order = optimal_order,
                        !.result = GeminiFailure("Invalid optimization order from Gemini AI")]

\* the whole call, given the answer the gateway would give
gemini_optimize_route(stps, key, outcome) ==
    LET c == GeminiUpToPost(GeminiEntry(stps, key))
    IN  IF c.pc = "awaiting" THEN GeminiFromAnswer(c, outcome) ELSE c

\* how many POSTs the whole call sends
GeminiPosts(stps, key) ==
    IF GeminiUpToPost(GeminiEntry(stps, key)).pc = "awaiting" THEN 1 ELSE 0

(***************************************************************************)
(* The answers of the gateway the model draws from.                        *)
(***************************************************************************)
DigitChar(n) ==
    CASE n = 0 -> "0" [] n = 1 -> "1" [] n = 2 -> "2" [] n = 3 -> "3" [] n = 4 -> "4"
      [] n = 5 -> "5" [] n = 6 -> "6" [] n = 7 -> "7" [] n = 8 -> "8" [] n = 9 -> "9"

\* the ids of order, separated by sep
RECURSIVE RenderIds(_, _)
RenderIds(order, sep) ==
    IF order = <<>> THEN <<>>
    ELSE IF Len(order) = 1 THEN <<DigitChar(order[1])>>
    ELSE <<DigitChar(order[1])>> \o sep \o RenderIds(Tail(order), sep)

RenderOrder(order, style) ==
    CASE style = "json"    -> <<"[">> \o RenderIds(order, <<",", " ">>) \o <<"]">>
      [] style = "compact" -> <<"[">> \o RenderIds(order, <<",">>) \o <<"]">>
      [] style = "bare"    -> RenderIds(order, <<" ">>)

AnswerPrefixes == {<<>>, <<"S", "u", "r", "e", "!", " ">>, <<"~", "~", "~", "\n">>}

AnswerStyles == {"json", "compact", "bare"}

\* an answer text: an order of ids, rendered, after a prefix
AnswerText(pre, order, style) == pre \o RenderOrder(order, style)

SplitAnswers ==
    {<<<<"[", "2", ",">>, <<"1", ",", "3", "]">>>>, <<<<>>, <<"3", " ", "1", " ", "2">>>>,
     <<<<" ">>, <<>>>>, <<<<"1", "2">>, <<"3">>>>}

\* the answers of the gateway that carry no order, or one split over two parts
PlainOutcomes ==
    {Outcome("error", 0, "none", <<>>)}
    \cup {Outcome("ok", s, "none", <<>>) : s \in {204, 429, 500}}
    \cup {Outcome("ok", 200, sh, <<>>) :
            sh \in {"not_json", "no_candidates", "no_content", "no_parts"}}
    \cup {Outcome("ok", 200, "parts", <<<<" ">>>>)}
    \cup {Outcome("ok", 200, "parts", ps) : ps \in SplitAnswers}

\* the stop lists gemini_optimize_route is called with: for each length, one
\* list of well-formed stops and one whose last stop has no 'name'
GeminiStopLists ==
    {[i \in 1..n |-> Stop(<<0, i>>, "A")] : n \in 0..MaxGeminiStops}
    \cup {[i \in 1..n |-> Stop(<<0, i>>, IF i = n THEN NoName ELSE "A")] :
            n \in 1..MaxGeminiStops}

GeminiIdle == gcall = GeminiEntry(<<>>, "") /\ llmRequests = 0

GeminiCall ==
    /\ gcall.pc = "entry"
    /\ gcall' = GeminiUpToPost(gcall)
    /\ llmRequests' = IF gcall'.pc = "awaiting" THEN llmRequests + 1 ELSE llmRequests
    /\ UNCHANGED <<fallbackVars, sampleVars, extractVars, apiVars, finderVars, routingVars, authVars, routesVars, receiptVars>>

GeminiAnswer ==
    /\ gcall.pc = "awaiting"
    /\ \/ \E outcome \in PlainOutcomes : gcall' = GeminiFromAnswer(gcall, outcome)
       \/ \E n \in 0..MaxOrderLen :
             \E order \in Seqs(0..MaxOrderId, n), pre \in AnswerPrefixes,
                style \in AnswerStyles, shape \in {"parts", "stringified"} :
                 gcall' = GeminiFromAnswer(gcall,
                              Outcome("ok", 200, shape, <<AnswerText(pre, order, style)>>))
    /\ UNCHANGED <<llmRequests, fallbackVars, sampleVars, extractVars, apiVars, finderVars, routingVars, authVars, routesVars, receiptVars>>

(***************************************************************************)
(* api_ai_optimize_route (route_optimizer/views.py).                       *)
(***************************************************************************)
\* the methods class RouteOptimizationService defines
ServiceMethods ==
    {"calculate_distance", "search_places", "calculate_route", "_extract_instructions",
     "find_fuel_stations_along_route", "_sample_route_points",
     "_fetch_fuel_stations_near_point", "_clean_station_name", "_determine_fuel_types",
     "_calculate_distance_to_route", "_extract_json_from_text", "gemini_optimize_route",
     "create_fallback_optimization"}

\* the method the view calls for the LLM path: service.ai_optimize_route(stops)
OptimizeCallee == "ai_optimize_route"

\* getattr(service, name)(stops): AttributeError when the class has no such
\* method, else the call (only gemini_optimize_route takes this argument list
\* and is awaitable)
CallService(name, stps, key, outcome) ==
    IF name \notin ServiceMethods
    THEN [GeminiEntry(stps, key) EXCEPT !.pc = "raised", !.raised = "AttributeError"]
    ELSE IF name = "gemini_optimize_route"
    THEN gemini_optimize_route(stps, key, outcome)
    ELSE [GeminiEntry(stps, key) EXCEPT !.pc = "raised", !.raised = "TypeError"]

\* how the view ends: a JsonResponse, or an exception that leaves the view
JsonResponse(success, error, has_order, optimal_order, fallback) ==
    [pc |-> "done", kind |-> "json", exception |-> "", success |-> success,
     error |-> error, has_order |-> has_order, optimal_order |-> optimal_order,
     fallback |-> fallback]

Unhandled(exception) ==
    [pc |-> "done", kind |-> "exception", exception |-> exception, success |-> FALSE,
     error |-> "", has_order |-> FALSE, optimal_order |-> <<>>, fallback |-> FALSE]

ResponsePending ==
    [pc |-> "pending", kind |-> "none", exception |-> "", success |-> FALSE,
     error |-> "", has_order |-> FALSE, optimal_order |-> <<>>, fallback |-> FALSE]

api_ai_optimize_route(stps, key, outcome) ==
    IF Len(stps) < 3
    THEN JsonResponse(FALSE, "Need at least 3 stops for optimization", FALSE, <<>>, FALSE)
    ELSE LET call == CallService(OptimizeCallee, stps, key, outcome)
             fallback_order == create_fallback_optimization(stps)
         IN  IF call.pc = "raised" THEN Unhandled(call.raised)
             ELSE IF call.result.kind = "none" THEN Unhandled("AttributeError")
             ELSE IF ~call.result.success
             THEN IF fallback_order.pc = "raised" THEN Unhandled("ValueError")
                  ELSE JsonResponse(TRUE, "", TRUE, fallback_order.optimized, TRUE)
             ELSE JsonResponse(call.result.success, call.result.error,
                               call.result.has_order, call.result.optimal_order, FALSE)

\* the POSTs the view causes
ApiPosts(stps, key) ==
    IF Len(stps) >= 3 /\ OptimizeCallee = "gemini_optimize_route"
    THEN GeminiPosts(stps, key) ELSE 0

ApiGrid == {<<0, 0>>, <<0, 1>>, <<0, 10>>, <<8, 0>>, <<-8, 180>>}

ApiStops == {Stop(pt, "A") : pt \in ApiGrid}

ApiOutcomes ==
    {Outcome("error", 0, "none", <<>>),
     Outcome("ok", 500, "none", <<>>),
     Outcome("ok", 200, "no_candidates", <<>>),
     Outcome("ok", 200, "parts", <<<<"[", "2", ",", " ", "1", ",", " ", "3", "]">>>>),
     Outcome("ok", 200, "parts", <<<<"[", "1", ",", " ", "1", ",", " ", "2", "]">>>>),
     Outcome("ok", 200, "parts", <<<<"[", "1", ",", " ", "2", "]">>>>)}

\* the calls of create_fallback_optimization the view makes: one, when the
\* service call returned a result that is not a success
ApiFallbackRuns(stps, key, outcome) ==
    IF Len(stps) < 3 THEN 0
    ELSE LET call == CallService(OptimizeCallee, stps, key, outcome)
         IN  IF call.pc = "raised" \/ call.result.kind = "none" THEN 0
             ELSE IF ~call.result.success THEN 1 ELSE 0

ApiIdle ==
    /\ request = [stops |-> <<>>, key |-> "", outcome |-> NoOutcome]
    /\ response = ResponsePending
    /\ fallbackRuns = 0

ApiAiOptimizeRoute ==
    /\ response.pc = "pending"
    /\ response' = api_ai_optimize_route(request.stops, request.key, request.outcome)
    /\ llmRequests' = llmRequests + ApiPosts(request.stops, request.key)
    /\ fallbackRuns' = fallbackRuns
                        + ApiFallbackRuns(request.stops, request.key, request.outcome)
    /\ UNCHANGED <<request, gcall, fallbackVars, sampleVars, extractVars, finderVars, routingVars, authVars, routesVars, receiptVars>>

(***************************************************************************)
(* find_fuel_stations_along_route, _fetch_fuel_stations_near_point and     *)
(* _calculate_distance_to_route.  In this component a coordinate is an     *)
(* integer number of 1e-7 degrees and a distance is a number of            *)
(* millimetres, rounded up; the distances are tabulated by running         *)
(* calculate_distance in IEEE doubles, and the rounding keeps every <, =   *)
(* and every comparison with 1.5 km between the tabulated values.          *)
(***************************************************************************)
MaxShortRoute == 3
MaxRouteLen == 41

\* max_samples=20 of line 127, fuel_stations[:20] of line 157, and the
\* 1.5 (km) of line 150 in millimetres
FinderMaxSamples == 20
TopStations == 20
RouteLimit == 1500000

\* props.get('lat') of a feature that has no latitude: None
None == -2000000000

\* route positions, [lon, lat]
PosA == <<0, 0>>
PosB == <<100000, 0>>
PosC == <<0, 500000>>

\* calculate_distance(lat1, lon1, lat2, lon2) from a station to a route position
HaversineMillimetres ==
    <<89932, 0, 0, 0>> :> 999999 @@
    <<89932, 0, 0, 100000>> :> 1495470 @@
    <<89932, 0, 500000, 0>> :> 4559749 @@
    <<89934, 0, 0, 0>> :> 1000021 @@
    <<89934, 0, 0, 100000>> :> 1495484 @@
    <<89934, 0, 500000, 0>> :> 4559726 @@
    <<-89932, 0, 0, 0>> :> 999999 @@
    <<-89932, 0, 0, 100000>> :> 1495470 @@
    <<-89932, 0, 500000, 0>> :> 6559745 @@
    <<179864, 0, 0, 0>> :> 1999997 @@
    <<179864, 0, 0, 100000>> :> 2288322 @@
    <<179864, 0, 500000, 0>> :> 3559750 @@
    <<134904, 0, 0, 0>> :> 1500065 @@
    <<134904, 0, 0, 100000>> :> 1867251 @@
    <<134904, 0, 500000, 0>> :> 4059683 @@
    <<134898, 0, 0, 0>> :> 1499998 @@
    <<134898, 0, 0, 100000>> :> 1867197 @@
    <<134898, 0, 500000, 0>> :> 4059750 @@
    <<545000, 0, 0, 0>> :> 6060124 @@
    <<545000, 0, 0, 100000>> :> 6161293 @@
    <<545000, 0, 500000, 0>> :> 500378 @@
    <<2001, 0, 0, 0>> :> 22251 @@
    <<2001, 0, 0, 100000>> :> 1112172 @@
    <<2001, 0, 500000, 0>> :> 5537497 @@
    <<4001, 0, 0, 0>> :> 44490 @@
    <<4001, 0, 0, 100000>> :> 1112839 @@
    <<4001, 0, 500000, 0>> :> 5515258 @@
    <<6001, 0, 0, 0>> :> 66729 @@
    <<6001, 0, 0, 100000>> :> 1113950 @@
    <<6001, 0, 500000, 0>> :> 5493019 @@
    <<8001, 0, 0, 0>> :> 88968 @@
    <<8001, 0, 0, 100000>> :> 1115503 @@
    <<8001, 0, 500000, 0>> :> 5470780 @@
    <<10001, 0, 0, 0>> :> 111207 @@
    <<10001, 0, 0, 100000>> :> 1117497 @@
    <<10001, 0, 500000, 0>> :> 5448541 @@
    <<12001, 0, 0, 0>> :> 133446 @@
    <<12001, 0, 0, 100000>> :> 1119929 @@
    <<12001, 0, 500000, 0>> :> 5426302 @@
    <<14001, 0, 0, 0>> :> 155685 @@
    <<14001, 0, 0, 100000>> :> 1122796 @@
    <<14001, 0, 500000, 0>> :> 5404063 @@
    <<16001, 0, 0, 0>> :> 177924 @@
    <<16001, 0, 0, 100000>> :> 1126095 @@
    <<16001, 0, 500000, 0>> :> 5381824 @@
    <<18001, 0, 0, 0>> :> 200162 @@
    <<18001, 0, 0, 100000>> :> 1129822 @@
    <<18001, 0, 500000, 0>> :> 5359585 @@
    <<20001, 0, 0, 0>> :> 222401 @@
    <<20001, 0, 0, 100000>> :> 1133973 @@
    <<20001, 0, 500000, 0>> :> 5337346 @@
    <<22001, 0, 0, 0>> :> 244640 @@
    <<22001, 0, 0, 100000>> :> 1138543 @@
    <<22001, 0, 500000, 0>> :> 5315107 @@
    <<24001, 0, 0, 0>> :> 266879 @@
    <<24001, 0, 0, 100000>> :> 1143528 @@
    <<24001, 0, 500000, 0>> :> 5292868 @@
    <<26001, 0, 0, 0>> :> 289118 @@
    <<26001, 0, 0, 100000>> :> 1148922 @@
    <<26001, 0, 500000, 0>> :> 5270629 @@
    <<28001, 0, 0, 0>> :> 311357 @@
    <<28001, 0, 0, 100000>> :> 1154719 @@
    <<28001, 0, 500000, 0>> :> 5248390 @@
    <<30001, 0, 0, 0>> :> 333596 @@
    <<30001, 0, 0, 100000>> :> 1160913 @@
    <<30001, 0, 500000, 0>> :> 5226151 @@
    <<32001, 0, 0, 0>> :> 355835 @@
    <<32001, 0, 0, 100000>> :> 1167498 @@
    <<32001, 0, 500000, 0>> :> 5203912 @@
    <<34001, 0, 0, 0>> :> 378074 @@
    <<34001, 0, 0, 100000>> :> 1174467 @@
    <<34001, 0, 500000, 0>> :> 5181673 @@
    <<36001, 0, 0, 0>> :> 400313 @@
    <<36001, 0, 0, 100000>> :> 1181813 @@
    <<36001, 0, 500000, 0>> :> 5159434 @@
    <<38001, 0, 0, 0>> :> 422552 @@
    <<38001, 0, 0, 100000>> :> 1189530 @@
    <<38001, 0, 500000, 0>> :> 5137195 @@
    <<40001, 0, 0, 0>> :> 444791 @@
    <<40001, 0, 0, 100000>> :> 1197611 @@
    <<40001, 0, 500000, 0>> :> 5114956 @@
    <<42001, 0, 0, 0>> :> 467030 @@
    <<42001, 0, 0, 100000>> :> 1206047 @@
    <<42001, 0, 500000, 0>> :> 5092717 @@
    <<44001, 0, 0, 0>> :> 489269 @@
    <<44001, 0, 0, 100000>> :> 1214832 @@
    <<44001, 0, 500000, 0>> :> 5070478 @@
    <<46001, 0, 0, 0>> :> 511508 @@
    <<46001, 0, 0, 100000>> :> 1223958 @@
    <<46001, 0, 500000, 0>> :> 5048239 @@
    <<48001, 0, 0, 0>> :> 533747 @@
    <<48001, 0, 0, 100000>> :> 1233417 @@
    <<48001, 0, 500000, 0>> :> 5026000

calculate_distance_mm(lat1, lon1, lat2, lon2) ==
    HaversineMillimetres[<<lat1, lon1, lat2, lon2>>]

\* the scan of the route stopping after its first coordinate
ScanRoute_FirstCoordinateOnly(lat, lon, route_coordinates, min_distance) ==
    IF route_coordinates = <<>> THEN min_distance
    ELSE calculate_distance_mm(lat, lon, Head(route_coordinates)[2], Head(route_coordinates)[1])

\* `for coord in route_coordinates`, min_distance starting at float('inf')
RECURSIVE ScanRoute(_, _, _, _)
ScanRoute(lat, lon, route_coordinates, min_distance) ==
    IF route_coordinates = <<>> THEN min_distance
    ELSE LET coord    == Head(route_coordinates)
             distance == calculate_distance_mm(lat, lon, coord[2], coord[1])
         IN  ScanRoute(lat, lon, Tail(route_coordinates),
                       IF Less(distance, min_distance) THEN distance ELSE min_distance)

_calculate_distance_to_route(lat, lon, route_coordinates) ==
    ScanRoute(lat, lon, route_coordinates, Inf)

\* _clean_station_name over the names of the model: "" is falsy, the three
\* phrases are removed and the rest is stripped, an empty rest is "Fuel Pump"
_clean_station_name(name) ==
    CASE name = ""                -> "Fuel Pump"
      [] name = "Gas Station"     -> "Fuel Pump"
      [] name = "BP Fuel Station" -> "BP"
      [] OTHER                    -> name

\* a feature of a places answer: properties name, lat, lon
Feature(name, lat, lon) == [name |-> name, lat |-> lat, lon |-> lon]

\* the answer of the places gateway to one query
PoiAnswer(transport, status, body, features) ==
    [transport |-> transport, status |-> status, body |-> body, features |-> features]

\* _fetch_fuel_stations_near_point: the list of station dicts of a 200 answer
\* with a JSON object body; [] after a caught exception (connection error,
\* response.json() failing) and for every other status
_fetch_fuel_stations_near_point(answer) ==
    IF answer.transport # "ok" THEN <<>>
    ELSE IF answer.status # 200 THEN <<>>
    ELSE IF answer.body # "object" THEN <<>>
    ELSE [k \in 1..Len(answer.features) |->
            [name |-> _clean_station_name(answer.features[k].name),
             lat  |-> answer.features[k].lat,
             lon  |-> answer.features[k].lon]]

\* f"{x:.6f}" as the number of 1e-6 degrees it prints (no coordinate of the
\* model lies half way between two of them)
Round6(x) == IF x >= 0 THEN (x + 5) \div 10 ELSE -((5 - x) \div 10)

\* station_id = f"{station['lat']:.6f},{station['lon']:.6f}"
station_id(station) == <<Round6(station.lat), Round6(station.lon)>>

\* the format raises TypeError for None
StationIdRaises(station) == station.lat = None \/ station.lon = None

\* lines 143-151 without the test `station_id not in stations_map`: every
\* station within the limit is stored
RECURSIVE CombineStations_NoMembershipTest(_, _, _)
CombineStations_NoMembershipTest(result, route_coordinates, acc) ==
    IF result = <<>> \/ acc.raised THEN acc
    ELSE LET station == Head(result) IN
         IF station.lat = None \/ station.lon = None THEN [acc EXCEPT !.raised = TRUE]
         ELSE LET distance_from_route ==
                      _calculate_distance_to_route(station.lat, station.lon, route_coordinates)
              IN  IF distance_from_route <= RouteLimit
                  THEN CombineStations_NoMembershipTest(Tail(result), route_coordinates,
                           [acc EXCEPT !.stations_map = Append(@,
                               [id |-> <<Round6(station.lat), Round6(station.lon)>>,
                                station |-> [name |-> station.name, lat |-> station.lat,
                                             lon |-> station.lon,
                                             distance_from_route |-> distance_from_route]])])
                  ELSE CombineStations_NoMembershipTest(Tail(result), route_coordinates, acc)

\* lines 143-151 for the stations of one result; stations_map is the list of
\* the dict's (key, value) items in insertion order
RECURSIVE CombineStations(_, _, _)
CombineStations(result, route_coordinates, acc) ==
    IF result = <<>> \/ acc.raised THEN acc
    ELSE LET station == Head(result) IN
         IF StationIdRaises(station) THEN [acc EXCEPT !.raised = TRUE]
         ELSE LET id == station_id(station)
                  distance_from_route ==
                      _calculate_distance_to_route(station.lat, station.lon, route_coordinates)
              IN  IF \E k \in 1..Len(acc.stations_map) : acc.stations_map[k].id = id
                  THEN CombineStations(Tail(result), route_coordinates, acc)
                  ELSE IF distance_from_route <= RouteLimit
                  THEN CombineStations(Tail(result), route_coordinates,
                           [acc EXCEPT !.stations_map = Append(@,
                               [id |-> id,
                                station |-> [name |-> station.name, lat |-> station.lat,
                                             lon |-> station.lon,
                                             distance_from_route |-> distance_from_route]])])
                  ELSE CombineStations(Tail(result), route_coordinates, acc)

\* `for result in results: if isinstance(result, list): ...` (every task
\* returns a list: the coroutine catches each Exception itself)
RECURSIVE CombineResults(_, _, _)
CombineResults(results, route_coordinates, acc) ==
    IF results = <<>> \/ acc.raised THEN acc
    ELSE CombineResults(Tail(results), route_coordinates,
                        CombineStations(Head(results).list, route_coordinates, acc))

\* list.sort(key=distance_from_route): stable, ascending
RECURSIVE SortByDistance(_)
SortByDistance(stations) ==
    IF stations = <<>> THEN <<>>
    ELSE LET n      == Len(stations)
             x      == stations[n]
             sorted == SortByDistance(SubSeq(stations, 1, n - 1))
             k      == Cardinality({i \in 1..(n - 1) :
                          sorted[i].distance_from_route <= x.distance_from_route})
         IN  SubSeq(sorted, 1, k) \o <<x>> \o SubSeq(sorted, k + 1, n - 1)

\* fuel_stations[:20] without the slice bound of line 157
TopOf_NoLimit(stations) == stations

\* fuel_stations[:20]
TopOf(stations) ==
    SubSeq(stations, 1, IF Len(stations) < TopStations THEN Len(stations) ELSE TopStations)

\* the guards of lines 119-124 without the test of the geometry type
GeometryIsInvalid_IgnoresType(route_geometry) ==
    \/ route_geometry.kind # "dict"
    \/ route_geometry.coordinates = <<>>

\* lines 119-124: None and {} are falsy, the type must be 'LineString', and
\* missing or empty coordinates are falsy
GeometryIsInvalid(route_geometry) ==
    \/ route_geometry.kind # "dict"
    \/ route_geometry.type # "LineString"
    \/ route_geometry.coordinates = <<>>

Geometry(kind, type, coords) == [kind |-> kind, type |-> type, coordinates |-> coords]

\* a task of the gather: pending, or done with the list it returned
PendingTask == [done |-> FALSE, list |-> <<>>]
DoneTask(list) == [done |-> TRUE, list |-> list]

FinderEntry(route_geometry) ==
    [pc |-> "entry", route_geometry |-> route_geometry, sample_points |-> <<>>,
     results |-> <<>>, completion |-> <<>>, fuel_stations |-> <<>>]

\* lines 117-135: the guards, the sampling, one task per sample point
FinderBegin(c) ==
    IF GeometryIsInvalid(c.route_geometry) THEN [c EXCEPT !.pc = "returned"]
    ELSE LET sample_points ==
                 _sample_route_points(c.route_geometry.coordinates, FinderMaxSamples)
         IN  [c EXCEPT !.pc = "gathering", !.sample_points = sample_points,
                       !.results = [i \in 1..Len(sample_points) |-> PendingTask]]

\* lines 139-157 once the gather has returned
FinderCombine(c) ==
    LET combined == CombineResults(c.results, c.route_geometry.coordinates,
                                   [raised |-> FALSE, stations_map |-> <<>>])
        values   == [k \in 1..Len(combined.stations_map) |-> combined.stations_map[k].station]
    IN  IF combined.raised THEN [c EXCEPT !.pc = "raised"]
        ELSE [c EXCEPT !.pc = "returned", !.fuel_stations = TopOf(SortByDistance(values))]

\* the whole call for given answers of the gateway, one per sample point
find_fuel_stations_along_route(route_geometry, answers) ==
    LET begun == FinderBegin(FinderEntry(route_geometry)) IN
    IF begun.pc = "returned" THEN begun
    ELSE FinderCombine([begun EXCEPT !.results =
             [i \in 1..Len(begun.sample_points) |->
                 DoneTask(_fetch_fuel_stations_near_point(answers[i]))]])

\* ---- the inputs of the model ----
Route(n, detour) ==
    [i \in 1..n |-> IF i = detour THEN PosC ELSE IF i % 2 = 1 THEN PosA ELSE PosB]

RouteLens == (0..MaxShortRoute) \cup {FinderMaxSamples, FinderMaxSamples + 1, MaxRouteLen}

Near        == Feature("Shell", 89932, 0)
NearUnnamed == Feature("", 89932, 0)
Near2       == Feature("BP Fuel Station", 89934, 0)
Mirror      == Feature("Gas Station", -89932, 0)
Far         == Feature("Esso", 179864, 0)
EdgeOut     == Feature("Edge", 134904, 0)
EdgeIn      == Feature("Edge", 134898, 0)
Detour      == Feature("Total", 545000, 0)
NoLat       == Feature("Agip", None, 0)
NoLon       == Feature("Agip", 89932, None)
Bulk(k)     == Feature("T", 2000 * k + 1, 0)

Ok(features) == PoiAnswer("ok", 200, "object", features)

FailedAnswers ==
    {PoiAnswer("error", 0, "none", <<>>),
     PoiAnswer("ok", 500, "object", <<Near>>),
     PoiAnswer("ok", 200, "unparseable", <<>>)}

BulkC == Ok([i \in 1..10 |-> Bulk(14 + i)])

PoiAnswers ==
    FailedAnswers \cup
    {Ok(<<>>), Ok(<<Near, Far>>), Ok(<<Near2, Mirror>>), Ok(<<EdgeOut>>),
     Ok(<<EdgeIn, NearUnnamed>>), Ok(<<Detour>>), Ok(<<Near, NoLat>>), Ok(<<NoLon>>),
     Ok([i \in 1..10 |-> Bulk(11 - i)]), Ok([i \in 1..10 |-> Bulk(10 + i)]), BulkC}

RestAnswers == {Ok(<<>>), PoiAnswer("error", 0, "none", <<>>), Ok(<<Bulk(21), Bulk(22), Bulk(1)>>)}

FinderIdle ==
    /\ fcall = [FinderEntry(Geometry("None", "", <<>>)) EXCEPT !.pc = "idle"]
    /\ poi = <<>>
    /\ poiQueries = <<>>

\* find_fuel_stations_along_route up to the gather: the sampler is called
\* with max_samples=20 and every task sends its query
FinderStart ==
    /\ fcall.pc = "entry"
    /\ fcall' = FinderBegin(fcall)
    /\ IF GeometryIsInvalid(fcall.route_geometry)
       THEN UNCHANGED <<sampleVars, poiQueries>>
       ELSE /\ coordinates' = fcall.route_geometry.coordinates
            /\ max_samples' = FinderMaxSamples
            /\ sampled' = [pc |-> "returned", out |-> fcall'.sample_points]
            /\ poiQueries' = [i \in 1..Len(fcall'.sample_points) |->
                                 [lat |-> fcall'.sample_points[i][2],
                                  lon |-> fcall'.sample_points[i][1]]]
    /\ UNCHANGED <<poi, fallbackVars, extractVars, geminiVars, apiVars, routingVars, authVars, routesVars, receiptVars>>

FetchComplete_KeepsCompletionOrder ==
    /\ fcall.pc = "gathering"
    /\ \E i \in 1..Len(fcall.results) :
          /\ i \notin Elems(fcall.completion)
          /\ IF i <= 2 THEN TRUE ELSE Len(fcall.completion) = i - 1
          /\ fcall' = [fcall EXCEPT
                          !.results[Len(fcall.completion) + 1] =
                              DoneTask(_fetch_fuel_stations_near_point(poi[i])),
                          !.completion = Append(@, i)]
    /\ UNCHANGED <<poi, poiQueries, sampleVars, fallbackVars, extractVars, geminiVars, apiVars, routingVars, authVars, routesVars, receiptVars>>

\* one task of the gather completes, and its list becomes the result of its
\* index (asyncio.gather returns the results in the order of the tasks);
\* completion is the order in which the tasks completed.  The tasks share
\* nothing, so only the first two complete in any order; the others complete
\* after them in index order.
FetchComplete ==
    /\ fcall.pc = "gathering"
    /\ \E i \in 1..Len(fcall.results) :
          /\ ~fcall.results[i].done
          /\ IF i <= 2 THEN TRUE ELSE Len(fcall.completion) = i - 1
          /\ fcall' = [fcall EXCEPT
                          !.results[i] = DoneTask(_fetch_fuel_stations_near_point(poi[i])),
                          !.completion = Append(@, i)]
    /\ UNCHANGED <<poi, poiQueries, sampleVars, fallbackVars, extractVars, geminiVars, apiVars, routingVars, authVars, routesVars, receiptVars>>

\* the gather returns when every task is done; lines 139-157 follow
FinderFinish ==
    /\ fcall.pc = "gathering"
    /\ \A i \in 1..Len(fcall.results) : fcall.results[i].done
    /\ fcall' = FinderCombine(fcall)
    /\ UNCHANGED <<poi, poiQueries, sampleVars, fallbackVars, extractVars, geminiVars, apiVars, routingVars, authVars, routesVars, receiptVars>>

(***************************************************************************)
(* The geocoding / routing gateway: search_places, calculate_route and the *)
(* view api_calculate_route.                                               *)
(***************************************************************************)
\* a feature of a gateway answer: properties name, lat, lon (geocoding) and
\* distance in metres, time in seconds, legs, waypoints (routing), and the
\* geometry of the feature
GeoFeature(name, lat, lon, distance, time, legs) ==
    [name |-> name, lat |-> lat, lon |-> lon, distance |-> distance, time |-> time,
     legs |-> legs, geometry |-> "LineString", waypoints |-> <<1, 2>>]

\* what requests.get meets.  transport "error": the GET raises an exception of
\* the requests library (connection, timeout, too many redirects).  Otherwise
\* a status and a body:
\*   "not_json"       no JSON document (an HTML error page, an empty body)
\*   "null", "array"  a JSON document that is not an object
\*   "object"         a JSON object without the key features
\*   "features_null"  {"features": null}
\*   "features"       {"features": [...]}, the list in features
\* json_error is the class of the exception Response.json() raises for a body
\* that is no JSON: a RequestException from requests 2.27 on, a ValueError
\* before (the repository pins no version of the library).
GeoAnswer(transport, status, body, features, json_error) ==
    [transport |-> transport, status |-> status, body |-> body, features |-> features,
     json_error |-> json_error]

\* requests.get(url, params); response.raise_for_status(); response.json():
\* the exception raised, whether it is a requests.RequestException, and str(e)
Raised(exception, is_request_exception, message) ==
    [raised |-> exception, is_request_exception |-> is_request_exception,
     message |-> message]

GetJson(answer) ==
    IF answer.transport = "error"
    THEN Raised("ConnectionError", TRUE, "Connection refused")
    ELSE IF answer.status >= 400 /\ answer.status < 600
    THEN Raised("HTTPError", TRUE,
                IF answer.status < 500 THEN "Client Error" ELSE "Server Error")
    ELSE IF answer.body = "not_json"
    THEN Raised("JSONDecodeError", answer.json_error = "RequestException",
                "Expecting value")
    ELSE Raised("", FALSE, "")

\* n / d of the source (float division), kept as the pair
Ratio(n, d) == <<n, d>>

NoRoute ==
    [distance |-> Ratio(0, 1), duration |-> Ratio(0, 1), geometry |-> "",
     instructions |-> <<>>, has_order |-> FALSE, waypoints_order |-> <<>>]

\* the value a service method returns: a list (search_places) or a dict
\* (calculate_route); has_error tells whether the dict has the key error
NoResult ==
    [kind |-> "none", results |-> <<>>, success |-> FALSE, has_error |-> FALSE,
     error |-> "", route |-> NoRoute]

SvcEntry(method, query, waypoints, optimize) ==
    [pc |-> "entry", method |-> method, query |-> query, waypoints |-> waypoints,
     optimize |-> optimize, raised |-> "", gets |-> 0, result |-> NoResult]

SvcReturn(entry, result) ==
    [entry EXCEPT !.pc = "returned", !.gets = 1, !.result = result]

SvcRaise(entry, exception) ==
    [entry EXCEPT !.pc = "raised", !.gets = 1, !.raised = exception]

ResultList(results) == [NoResult EXCEPT !.kind = "list", !.results = results]

ResultFailure(error) ==
    [NoResult EXCEPT !.kind = "dict", !.has_error = TRUE, !.error = error]

ResultRoute(route) ==
    [NoResult EXCEPT !.kind = "dict", !.success = TRUE, !.route = route]

\* the dict search_places builds of a feature
PlaceOf(feature) ==
    [name |-> IF feature.name = NoName THEN "Unknown" ELSE feature.name, formatted |-> "", lat |-> feature.lat, lon |-> feature.lon]

search_places(query, answer) ==
    LET entry == SvcEntry("search_places", query, <<>>, FALSE)
        got == GetJson(answer)
    IN  IF got.raised # ""
        THEN IF got.is_request_exception
             THEN SvcReturn(entry, ResultList(<<>>))
             ELSE SvcRaise(entry, "ValueError")
        ELSE IF answer.body \in {"null", "array"}
        THEN SvcRaise(entry, "AttributeError")
        ELSE IF answer.body = "object"
        THEN SvcReturn(entry, ResultList(<<>>))
        ELSE IF answer.body = "features_null"
        THEN SvcRaise(entry, "TypeError")
        ELSE SvcReturn(entry, ResultList([i \in 1..Len(answer.features) |->
                                             PlaceOf(answer.features[i])]))

RECURSIVE InstructionsOf(_)
InstructionsOf(legs) ==
    IF legs = <<>> THEN <<>>
    ELSE [i \in 1..Len(legs[1]) |->
             [text |-> legs[1][i].text, distance |-> Ratio(legs[1][i].distance, 1000)]]
         \o InstructionsOf(Tail(legs))

_extract_instructions(feature) == InstructionsOf(feature.legs)

calculate_route(waypoints, optimize, answer) ==
    LET entry == SvcEntry("calculate_route", "", waypoints, optimize)
        got == GetJson(answer)
    IN  IF got.raised # ""
        THEN IF got.is_request_exception
             THEN SvcReturn(entry, ResultFailure(got.message))
             ELSE SvcRaise(entry, "ValueError")
        ELSE IF answer.body \in {"null", "array"}
        THEN SvcRaise(entry, "AttributeError")
        ELSE IF answer.body = "features" /\ Len(answer.features) > 0
        THEN LET route == answer.features[1]
             IN  SvcReturn(entry, ResultRoute(
                     [distance |-> Ratio(route.distance, 1000),
                      duration |-> Ratio(route.time, 60),
                      geometry |-> route.geometry,
                      instructions |-> _extract_instructions(route),
                      has_order |-> optimize,
                      waypoints_order |-> IF optimize THEN route.waypoints ELSE <<>>]))
        ELSE SvcReturn(entry, ResultFailure("No route found"))

\* how api_calculate_route ends: JsonResponse(result) or an exception that
\* leaves the view; gets is the number of GETs it sent to the gateway
RouteResponse(kind, exception, result, gets) ==
    [pc |-> "done", kind |-> kind, exception |-> exception, result |-> result,
     gets |-> gets]

RouteResponsePending ==
    [pc |-> "pending", kind |-> "none", exception |-> "", result |-> NoResult, gets |-> 0]

RouteResponseIdle ==
    [pc |-> "idle", kind |-> "none", exception |-> "", result |-> NoResult, gets |-> 0]

api_calculate_route_NoLengthTest(waypoints, optimize, answer) ==
    LET call == calculate_route(waypoints, optimize, answer)
    IN  IF call.pc = "raised"
        THEN RouteResponse("exception", call.raised, NoResult, call.gets)
        ELSE RouteResponse("json", "", call.result, call.gets)

api_calculate_route(waypoints, optimize, answer) ==
    IF Len(waypoints) < 2
    THEN RouteResponse("json", "", ResultFailure("Need at least 2 waypoints"), 0)
    ELSE LET call == calculate_route(waypoints, optimize, answer)
         IN  IF call.pc = "raised"
             THEN RouteResponse("exception", call.raised, NoResult, call.gets)
             ELSE RouteResponse("json", "", call.result, call.gets)

\* inputs
MaxWaypoints == 3

Waypoints == {<<0, 0>>, <<0, 1>>}

Step == [text |-> "Turn left", distance |-> 500]

Place1 == GeoFeature("Depot", 10, 20, 12000, 600, <<<<Step>>, <<Step, Step>>>>)

Place2 == GeoFeature(NoName, 11, 21, 0, 0, <<>>)

\* statuses answered with a body of any kind; a 304 answer has no body
GeoStatuses == {200, 404, 500}

GeoBodies ==
    {<<"not_json", <<>>>>, <<"null", <<>>>>, <<"array", <<>>>>, <<"object", <<>>>>,
     <<"features_null", <<>>>>, <<"features", <<>>>>, <<"features", <<Place1>>>>,
     <<"features", <<Place2, Place1>>>>}

JsonErrors == {"RequestException", "ValueError"}

GeoAnswers ==
    {GeoAnswer("error", 0, "none", <<>>, je) : je \in JsonErrors}
        \cup {GeoAnswer("ok", 304, "not_json", <<>>, je) : je \in JsonErrors}
        \cup {GeoAnswer("ok", st, b[1], b[2], je) :
                 st \in GeoStatuses, b \in GeoBodies, je \in JsonErrors}

Queries == {"de", "depot"}

GeoIdleAnswer == GeoAnswer("error", 0, "none", <<>>, "RequestException")

RoutingIdle ==
    /\ geoapify = [answer |-> GeoIdleAnswer, gets |-> 0]
    /\ svc = [SvcEntry("", "", <<>>, FALSE) EXCEPT !.pc = "idle"]
    /\ routeReq = [waypoints |-> <<>>, optimize |-> FALSE]
    /\ routeResp = RouteResponseIdle

\* service.search_places(query)
SearchPlaces ==
    /\ svc.pc = "entry"
    /\ svc.method = "search_places"
    /\ svc' = search_places(svc.query, geoapify.answer)
    /\ geoapify' = [geoapify EXCEPT !.gets = @ + svc'.gets]
    /\ UNCHANGED <<routeReq, routeResp, fallbackVars, sampleVars, extractVars,
                   geminiVars, apiVars, finderVars, authVars, routesVars, receiptVars>>

\* service.calculate_route(waypoints, optimize)
CalculateRoute ==
    /\ svc.pc = "entry"
    /\ svc.method = "calculate_route"
    /\ svc' = calculate_route(svc.waypoints, svc.optimize, geoapify.answer)
    /\ geoapify' = [geoapify EXCEPT !.gets = @ + svc'.gets]
    /\ UNCHANGED <<routeReq, routeResp, fallbackVars, sampleVars, extractVars,
                   geminiVars, apiVars, finderVars, authVars, routesVars, receiptVars>>

\* POST to api_calculate_route
ApiCalculateRoute ==
    /\ routeResp.pc = "pending"
    /\ routeResp' = api_calculate_route(routeReq.waypoints, routeReq.optimize,
                                        geoapify.answer)
    /\ geoapify' = [geoapify EXCEPT !.gets = @ + routeResp'.gets]
    /\ UNCHANGED <<svc, routeReq, fallbackVars, sampleVars, extractVars, geminiVars,
                   apiVars, finderVars, authVars, routesVars, receiptVars>>

(***************************************************************************)
(* accounts: login_register_view with CustomAuthenticationForm and         *)
(* CustomUserCreationForm (accounts/views.py, accounts/forms.py).          *)
(***************************************************************************)
\* a row of CustomUser
User(username, email, password, role, is_active, is_staff, company) ==
    [username |-> username, email |-> email, password |-> password, role |-> role,
     is_active |-> is_active, is_staff |-> is_staff, company |-> company]

\* no user: None of authenticate, AnonymousUser of request.user
NoUser == User("", "", "", "", FALSE, FALSE, "")

\* django.contrib.auth.authenticate with the model backend: the row with this
\* username, when the password matches and the user is active
authenticate(table, username, password) ==
    LET found == {u \in table : /\ u.username = username
                                /\ u.password = password
                                /\ u.is_active}
    IN  IF found = {} THEN NoUser ELSE CHOOSE u \in found : TRUE

\* CustomAuthenticationForm(request, data).is_valid(): user_cache and whether
\* the form is valid, or the exception that leaves clean()
FormResult(valid, user, raised) == [valid |-> valid, user |-> user, raised |-> raised]

CustomAuthenticationForm(table, username, password) ==
    IF username = "" \/ password = ""
    THEN FormResult(FALSE, NoUser, "")
    ELSE LET by_name == authenticate(table, username, password)
             with_email == {u \in table : u.email = username}
         IN  IF by_name = NoUser /\ Cardinality(with_email) > 1
             THEN FormResult(FALSE, NoUser, "MultipleObjectsReturned")
             ELSE LET user_cache ==
                          IF by_name # NoUser THEN by_name
                          ELSE IF with_email = {} THEN NoUser
                          ELSE authenticate(table,
                                            (CHOOSE u \in with_email : TRUE).username,
                                            password)
                  IN  IF user_cache = NoUser THEN FormResult(FALSE, NoUser, "")
                      ELSE IF ~user_cache.is_active THEN FormResult(FALSE, NoUser, "")
                      ELSE FormResult(TRUE, user_cache, "")

\* CustomUserCreationForm(data).is_valid(): every required field is there, the
\* username is free and the two passwords agree
RegistrationIsValid(table, req) ==
    /\ req.username # "" /\ req.email # "" /\ req.company_name # ""
    /\ req.names_given
    /\ req.password # "" /\ req.password2 = req.password
    /\ \A u \in table : u.username # req.username

\* CustomUserCreationForm.save(): the row written by the first user.save()
\* (whatever role the request carries, the role is 'admin'), then
\* Company.objects.get_or_create(name=company_name) and the second save
NewUser_RoleFromRequest(req) ==
    User(req.username, req.email, req.password,
         IF req.role = "" THEN "admin" ELSE req.role, TRUE, req.role # "driver", "")

NewUser(req) == User(req.username, req.email, req.password, "admin", TRUE, TRUE, "")

CountOf(names, name) == Cardinality({i \in 1..Len(names) : names[i] = name})

\* the redirect of a user by role
DashboardOf_AdminOnly(role) ==
    IF role = "admin" THEN "/dashboard/" ELSE "/dashboard/driver/"

DashboardOf(role) ==
    IF role = "driver" THEN "/dashboard/driver/" ELSE "/dashboard/"

\* how the view ends; user is the user login() was called with
AuthResponse(kind, location, message, user, exception) ==
    [pc |-> "done", kind |-> kind, location |-> location, message |-> message,
     user |-> user, exception |-> exception]

AuthPending ==
    [pc |-> "pending", kind |-> "none", location |-> "", message |-> "",
     user |-> "", exception |-> ""]

Render(message) == AuthResponse("render", "auth/login_register.html", message, "", "")

ViewResult(resp, table, names, sess) ==
    [resp |-> resp, users |-> table, companies |-> names, session |-> sess]

login_register_view(table, names, sess, req) ==
    IF sess # ""
    THEN LET user == CHOOSE u \in table : u.username = sess
         IN  ViewResult(AuthResponse("redirect", DashboardOf(user.role), "", "", ""),
                        table, names, sess)
    ELSE IF req.method # "POST"
    THEN ViewResult(Render(""), table, names, sess)
    ELSE IF req.form_type = "login"
    THEN LET form == CustomAuthenticationForm(table, req.username, req.password)
         IN  IF form.raised # ""
             THEN ViewResult(AuthResponse("exception", "", "", "", form.raised),
                             table, names, sess)
             ELSE IF form.valid
             THEN ViewResult(AuthResponse("redirect", DashboardOf(form.user.role),
                                          "Welcome back", form.user.username, ""),
                             table, names, form.user.username)
             ELSE ViewResult(Render("Invalid credentials. Please try again."),
                             table, names, sess)
    ELSE IF req.form_type = "register"
    THEN IF ~RegistrationIsValid(table, req)
         THEN ViewResult(Render("form errors"), table, names, sess)
         ELSE LET n == CountOf(names, req.company_name)
              IN  IF n > 1
                  THEN ViewResult(AuthResponse("exception", "", "", "",
                                               "MultipleObjectsReturned"),
                                  table \cup {NewUser(req)}, names, sess)
                  ELSE ViewResult(
                           AuthResponse("redirect", "accounts:login",
                                        "Admin account created successfully! Please log in.",
                                        "", ""),
                           table \cup {[NewUser(req) EXCEPT !.company = req.company_name]},
                           IF n = 0 THEN Append(names, req.company_name) ELSE names,
                           sess)
    ELSE ViewResult(Render(""), table, names, sess)

\* inputs
Alice == User("alice", "a@x", "pw", "admin", TRUE, TRUE, "Acme")

Bob == User("bob", "b@x", "pw", "driver", TRUE, FALSE, "Acme")

Carol == User("carol", "c@x", "pw", "manager", TRUE, FALSE, "")

Dave == User("dave", "d@x", "pw", "driver", FALSE, FALSE, "Acme")

BobTwin == User("bobby", "b@x", "pw2", "admin", TRUE, TRUE, "")

UserTables ==
    {{Alice, Bob, Carol, Dave}, {Alice, Bob, BobTwin}, {}}

CompanyTables == {<<>>, <<"Acme">>, <<"Acme", "Acme">>}

AuthRequest(method, form_type, username, password, password2, email, role, company_name, names_given) ==
    [method |-> method, form_type |-> form_type, username |-> username,
     password |-> password, password2 |-> password2, email |-> email, role |-> role,
     company_name |-> company_name, names_given |-> names_given]

LoginNames == {"alice", "bob", "carol", "dave", "a@x", "b@x", "nobody", ""}

Passwords == {"pw", "pw2", "bad", ""}

LoginRequests ==
    {AuthRequest("POST", "login", n, p, "", "", "", "", FALSE) :
        n \in LoginNames, p \in Passwords}

RegisterRequests ==
    {AuthRequest("POST", "register", n, "pw", p2, e, r, c, g) :
        n \in {"alice", "erin"}, p2 \in {"pw", "bad"}, e \in {"e@x", ""},
        r \in {"", "driver"}, c \in {"Acme", "New"}, g \in BOOLEAN}

OtherRequests ==
    {AuthRequest("GET", "", "", "", "", "", "", "", FALSE),
     AuthRequest("POST", "", "bob", "pw", "", "", "", "", FALSE)}

AuthIdle ==
    /\ users = {}
    /\ companies = <<>>
    /\ session = ""
    /\ authReq = AuthRequest("GET", "", "", "", "", "", "", "", FALSE)
    /\ authResp = [AuthPending EXCEPT !.pc = "idle"]

\* one request to login_register_view
LoginRegisterView ==
    /\ authResp.pc = "pending"
    /\ LET r == login_register_view(users, companies, session, authReq)
       IN  /\ authResp' = r.resp
           /\ users' = r.users
           /\ companies' = r.companies
           /\ session' = r.session
    /\ UNCHANGED <<authReq, fallbackVars, sampleVars, extractVars, geminiVars, apiVars,
                   finderVars, routingVars, routesVars, receiptVars>>

(***************************************************************************)
(* routes: assign_route, start_route, complete_route and cancel_assignment *)
(* (routes/views.py) over the tables of Route and RouteAssignment.  A      *)
(* request is handled by a worker, one database read or write per step;    *)
(* the views open no transaction and take no lock.  Every request is of a  *)
(* logged-in user (@login_required).                                       *)
(***************************************************************************)
MaxRequests == 4

MaxRaceRequests == 3

Workers == {1, 2}

\* the users of the requests, by id: two drivers and an admin
RoleOf(user_id) == IF user_id \in {1, 2} THEN "driver" ELSE "admin"

RouteUsers == {1, 2, 3}

\* a row of RouteAssignment; actual_start and actual_end are 0 for None
Assignment(route, driver, status, actual_start, actual_end) ==
    [route |-> route, driver |-> driver, status |-> status,
     actual_start |-> actual_start, actual_end |-> actual_end]

NoAssignment == Assignment(0, 0, "", 0, 0)

ActiveStatuses == {"assigned", "in_progress"}

\* RouteAssignment.objects.filter(driver=driver, status__in=[...]).first():
\* the id of the first such row, 0 for None
FirstActive_OnlyAssigned(table, driver) ==
    LET found == {a \in 1..Len(table) : /\ table[a].driver = driver
                                         /\ table[a].status = "assigned"}
    IN  IF found = {} THEN 0 ELSE CHOOSE a \in found : \A b \in found : a <= b

FirstActive(table, driver) ==
    LET found == {a \in 1..Len(table) : /\ table[a].driver = driver
                                         /\ table[a].status \in ActiveStatuses}
    IN  IF found = {} THEN 0 ELSE CHOOSE a \in found : \A b \in found : a <= b

\* JsonResponse(..., status=code)
RouteJson(code, success, error) == [code |-> code, success |-> success, error |-> error]

NoResponse == RouteJson(0, FALSE, "")

\* a request: the view, request.user, and the view's arguments
RouteRequest(view, user, driver_id, has_route_data, vehicle, notes, assignment_id) ==
    [view |-> view, user |-> user, driver_id |-> driver_id,
     has_route_data |-> has_route_data, vehicle |-> vehicle, notes |-> notes,
     assignment_id |-> assignment_id]

\* the frame of a worker: the request, the position in the view, the objects
\* the view holds in memory (assignment is the row with this id as it was
\* read, route the id of the Route the view created) and the response
Frame(pc, req, id, assignment, route, resp) ==
    [pc |-> pc, req |-> req, id |-> id, assignment |-> assignment, route |-> route,
     resp |-> resp]

IdleFrame ==
    Frame("idle", RouteRequest("", 0, 0, FALSE, "none", "", 0), 0, NoAssignment, 0,
          NoResponse)

Respond(frame, resp) == [frame EXCEPT !.pc = "done", !.resp = resp]

\* lines 250-293 of assign_route: the checks of the body, the driver and the
\* vehicle; the position "create_route" means that they passed
AssignChecks(req) ==
    IF req.driver_id = 0 THEN RouteJson(400, FALSE, "Driver ID is required")
    ELSE IF ~req.has_route_data THEN RouteJson(400, FALSE, "Route data is required")
    ELSE IF ~(req.driver_id \in RouteUsers /\ RoleOf(req.driver_id) = "driver")
    THEN RouteJson(404, FALSE, "Driver not found")
    ELSE IF req.vehicle = "missing" THEN RouteJson(404, FALSE, "Vehicle not found")
    ELSE NoResponse

\* get_object_or_404(RouteAssignment, id=assignment_id); Http404 is caught by
\* the view's except Exception
Found(table, assignment_id) == assignment_id \in 1..Len(table)

\* the checks of start_route on the row it read
StartChecks_NoStatusTest(req, row) ==
    IF row.driver # req.user
    THEN RouteJson(403, FALSE, "You can only start your own assigned routes")
    ELSE NoResponse

StartChecks(req, row) ==
    IF row.driver # req.user
    THEN RouteJson(403, FALSE, "You can only start your own assigned routes")
    ELSE IF row.status # "assigned"
    THEN RouteJson(400, FALSE, "Route cannot be started")
    ELSE NoResponse

\* the checks of complete_route on the row it read
CompleteChecks(req, row) ==
    IF row.driver # req.user
    THEN RouteJson(403, FALSE, "You can only complete your own assigned routes")
    ELSE IF row.status # "in_progress"
    THEN RouteJson(400, FALSE, "Route must be in progress to complete")
    ELSE NoResponse

\* the checks of cancel_assignment on the row it read
CancelChecks(req, row) ==
    IF RoleOf(req.user) \notin {"admin", "manager"} /\ row.driver # req.user
    THEN RouteJson(403, FALSE, "You do not have permission to cancel this assignment")
    ELSE IF row.status \in {"completed", "cancelled"}
    THEN RouteJson(400, FALSE, "Cannot cancel assignment")
    ELSE NoResponse

ChecksOf(req, row) ==
    IF req.view = "start_route" THEN StartChecks(req, row)
    ELSE IF req.view = "complete_route" THEN CompleteChecks(req, row)
    ELSE CancelChecks(req, row)

\* the value a view gives the status of the row it read
TargetStatus(view) ==
    IF view = "start_route" THEN "in_progress"
    ELSE IF view = "complete_route" THEN "completed"
    ELSE "cancelled"

\* inputs
AssignRequests ==
    {RouteRequest("assign_route", 3, d, TRUE, "none", "", 0) : d \in {1, 2}}
        \cup {RouteRequest("assign_route", 3, 0, TRUE, "none", "", 0),
              RouteRequest("assign_route", 3, 1, FALSE, "none", "", 0),
              RouteRequest("assign_route", 3, 3, TRUE, "none", "", 0),
              RouteRequest("assign_route", 1, 1, TRUE, "found", "", 0),
              RouteRequest("assign_route", 3, 1, TRUE, "missing", "", 0),
              RouteRequest("assign_route", 3, 1, TRUE, "none", "null", 0)}

AssignmentRequests(table) ==
    {RouteRequest(v, u, 0, FALSE, "none", "", a) :
        v \in {"start_route", "complete_route", "cancel_assignment"},
        u \in RouteUsers, a \in 1..(Len(table) + 1)}

RoutesIdle ==
    /\ routeTable = <<>>
    /\ assignmentTable = <<>>
    /\ workers = [w \in Workers |-> IdleFrame]
    /\ mode = "off"
    /\ taken = 0

\* the state of the other components
beyondRoutes == <<fallbackVars, sampleVars, extractVars, geminiVars, apiVars, finderVars,
                  routingVars, authVars, receiptVars>>

beyondReceipts == <<fallbackVars, sampleVars, extractVars, geminiVars, apiVars, finderVars,
                    routingVars, authVars, routesVars>>

\* a request arrives at a worker.  In mode "serial" a request is taken only
\* when no other is being handled; timezone.now() is the number of requests
\* taken so far.
BeginRequest(w) ==
    /\ workers[w].pc \in {"idle", "done"}
    /\ IF mode = "serial" THEN w = 1 /\ taken < MaxRequests
       ELSE mode = "concurrent" /\ taken < MaxRaceRequests
    /\ \E req \in AssignRequests \cup AssignmentRequests(assignmentTable) :
          workers' = [workers EXCEPT ![w] = Frame("entry", req, 0, NoAssignment, 0, NoResponse)]
    /\ taken' = taken + 1
    /\ UNCHANGED <<routeTable, assignmentTable, mode, beyondRoutes>>

\* assign_route, lines 242-293: the checks; then Route.objects.create(...,
\* status='draft')
AssignCreateRoute(w) ==
    /\ workers[w].pc = "entry" /\ workers[w].req.view = "assign_route"
    /\ LET checks == AssignChecks(workers[w].req)
       IN  IF checks # NoResponse
           THEN /\ workers' = [workers EXCEPT ![w] = Respond(@, checks)]
                /\ UNCHANGED routeTable
           ELSE /\ routeTable' = Append(routeTable, [status |-> "draft"])
                /\ workers' = [workers EXCEPT ![w].pc = "lookup",
                                              ![w].route = Len(routeTable) + 1]
    /\ UNCHANGED <<assignmentTable, mode, taken, beyondRoutes>>

\* assign_route, lines 304-308: the lookup of the driver's active assignment
AssignLookup(w) ==
    /\ workers[w].pc = "lookup"
    /\ LET existing == FirstActive(assignmentTable, workers[w].req.driver_id)
       IN  workers' = [workers EXCEPT
                          ![w].pc = IF existing = 0 THEN "create" ELSE "cancel_route",
                          ![w].id = existing,
                          ![w].assignment = IF existing = 0 THEN NoAssignment
                                            ELSE assignmentTable[existing]]
    /\ UNCHANGED <<routeTable, assignmentTable, mode, taken, beyondRoutes>>

\* assign_route, lines 312-313: existing_assignment.route is fetched, given
\* the status 'cancelled' and saved
AssignCancelRoute(w) ==
    /\ workers[w].pc = "cancel_route"
    /\ routeTable' = [routeTable EXCEPT ![workers[w].assignment.route].status = "cancelled"]
    /\ workers' = [workers EXCEPT ![w].pc = "cancel_existing"]
    /\ UNCHANGED <<assignmentTable, mode, taken, beyondRoutes>>

\* assign_route, lines 314-315: existing_assignment.save() writes every column
\* of the row as the view read it, with the status 'cancelled'
AssignCancelExisting(w) ==
    /\ workers[w].pc = "cancel_existing"
    /\ assignmentTable' = [assignmentTable EXCEPT ![workers[w].id] =
                              [workers[w].assignment EXCEPT !.status = "cancelled"]]
    /\ workers' = [workers EXCEPT ![w].pc = "create"]
    /\ UNCHANGED <<routeTable, mode, taken, beyondRoutes>>

\* assign_route, lines 318-326: RouteAssignment.objects.create(...); notes is
\* a column without NULL, so notes = null in the body ends in the view's
\* except Exception
AssignCreate(w) ==
    /\ workers[w].pc = "create"
    /\ IF workers[w].req.notes = "null"
       THEN /\ workers' = [workers EXCEPT ![w] =
                              Respond(@, RouteJson(500, FALSE, "Assignment failed"))]
            /\ UNCHANGED assignmentTable
       ELSE /\ assignmentTable' =
                   Append(assignmentTable,
                          Assignment(workers[w].route, workers[w].req.driver_id,
                                     "assigned", 0, 0))
            /\ workers' = [workers EXCEPT ![w].pc = "activate",
                                          ![w].id = Len(assignmentTable) + 1]
    /\ UNCHANGED <<routeTable, mode, taken, beyondRoutes>>

\* assign_route, lines 329-342: route.status = 'active'; route.save()
AssignActivate(w) ==
    /\ workers[w].pc = "activate"
    /\ routeTable' = [routeTable EXCEPT ![workers[w].route].status = "active"]
    /\ workers' = [workers EXCEPT ![w] = Respond(@, RouteJson(200, TRUE, ""))]
    /\ UNCHANGED <<assignmentTable, mode, taken, beyondRoutes>>

\* start_route, complete_route, cancel_assignment: get_object_or_404 and the
\* checks of the view on the row it read
ReadAssignment(w) ==
    /\ workers[w].pc = "entry" /\ workers[w].req.view # "assign_route"
    /\ LET req == workers[w].req IN
       IF ~Found(assignmentTable, req.assignment_id)
       THEN workers' = [workers EXCEPT ![w] =
                           Respond(@, RouteJson(500, FALSE, "No RouteAssignment matches"))]
       ELSE LET row == assignmentTable[req.assignment_id]
                checks == ChecksOf(req, row)
            IN  IF checks # NoResponse
                THEN workers' = [workers EXCEPT ![w] = Respond(@, checks)]
                ELSE workers' = [workers EXCEPT ![w].pc = "save", ![w].id = req.assignment_id,
                                                ![w].assignment = row]
    /\ UNCHANGED <<routeTable, assignmentTable, mode, taken, beyondRoutes>>

\* assignment.save(): every column of the row as the view read it, with the
\* new status and, for start_route and complete_route, the time
SaveAssignment(w) ==
    /\ workers[w].pc = "save"
    /\ LET view == workers[w].req.view
           row == workers[w].assignment
       IN  /\ assignmentTable' = [assignmentTable EXCEPT ![workers[w].id] =
                  [row EXCEPT !.status = TargetStatus(view),
                              !.actual_start = IF view = "start_route" THEN taken ELSE @,
                              !.actual_end = IF view = "complete_route" THEN taken ELSE @]]
           /\ workers' = [workers EXCEPT ![w] =
                  IF view = "start_route" THEN Respond(@, RouteJson(200, TRUE, ""))
                  ELSE [@ EXCEPT !.pc = "save_route"]]
    /\ UNCHANGED <<routeTable, mode, taken, beyondRoutes>>

\* complete_route, lines 483-484, and cancel_assignment, lines 570-571:
\* assignment.route is fetched, given the status and saved
SaveRoute(w) ==
    /\ workers[w].pc = "save_route"
    /\ routeTable' = [routeTable EXCEPT ![workers[w].assignment.route].status =
                          TargetStatus(workers[w].req.view)]
    /\ workers' = [workers EXCEPT ![w] = Respond(@, RouteJson(200, TRUE, ""))]
    /\ UNCHANGED <<assignmentTable, mode, taken, beyondRoutes>>

\* a step of a worker
RoutesNext ==
    \E w \in Workers :
        \/ BeginRequest(w)
        \/ AssignCreateRoute(w) \/ AssignLookup(w) \/ AssignCancelRoute(w)
        \/ AssignCancelExisting(w) \/ AssignCreate(w) \/ AssignActivate(w)
        \/ ReadAssignment(w) \/ SaveAssignment(w) \/ SaveRoute(w)

(***************************************************************************)
(* receipts: process_receipt_with_gemini and retry_failed_receipts         *)
(* (src/receipts/ocr_processing.py).  A JSON value is described by what    *)
(* the function reads of it, a text by the JSON values its parser finds.   *)
(***************************************************************************)
MaxReceipts == 2

\* a JSON value: kind "none" is no value; price is price_per_gallon (absent,
\* a number the column DecimalField(max_digits=6, decimal_places=3) holds,
\* or one it does not hold, 1000 and more); confidence is confidence_score
OcrData(kind, price, confidence) == [kind |-> kind, price |-> price, confidence |-> confidence]

NoData == OcrData("none", "absent", "absent")

\* bool(value) of a JSON value
Truthy(data) == data.kind \in {"dict", "list"}

\* a text: the value json.loads gives for the whole text, the value inside a
\* code fence, the value of the first {...} block that parses, whether the
\* key: value pattern matches
OcrText(empty, whole, fenced, braces, pairs) == [empty |-> empty, whole |-> whole, fenced |-> fenced, braces |-> braces, pairs |-> pairs]

\* json.dumps(value)
Dumps(data) == OcrText(FALSE, data, NoData, NoData, FALSE)

\* lines 79-137
receipt_extract_json_from_text(txt) ==
    IF txt.empty THEN NoData
    ELSE IF txt.whole.kind # "none" THEN txt.whole
    ELSE IF txt.fenced.kind # "none" THEN txt.fenced
    ELSE IF txt.braces.kind # "none" THEN txt.braces
    ELSE IF txt.pairs THEN OcrData("dict", "absent", "absent")
    ELSE NoData

\* the body of a 200 answer: kind "not_json", "list", "empty_dict", "dict"
\* without candidates, or "candidates" with the joined text of the parts
OcrBody(kind, parts) == [kind |-> kind, parts |-> parts]

\* resp.json() of a body that parses
ResultOf(body) ==
    IF body.kind = "list" THEN OcrData("list", "absent", "absent")
    ELSE IF body.kind = "empty_dict" THEN OcrData("empty_dict", "absent", "absent")
    ELSE OcrData("dict", "absent", "absent")

\* lines 246-277: the text of the first candidate; json.dumps(result) when
\* there is none, when it is empty and when reading it raised (a list has no
\* get)
ReceiptContentText(body) ==
    IF body.kind = "candidates" /\ ~body.parts.empty THEN body.parts
    ELSE Dumps(ResultOf(body))

\* the answer of the Gemini API to the POST of line 222
OcrAnswer(error, status_code, body) == [error |-> error, status_code |-> status_code, body |-> body]

\* what a call meets: GEMINI_API_KEY, whether open(image_path) succeeds, the
\* answer
OcrEnv(key, readable, answer) == [key |-> key, readable |-> readable, answer |-> answer]

\* a row of FuelReceipt, and the instance the function works on
Receipt(has_image, processing_status, price_per_gallon) == [has_image |-> has_image, processing_status |-> processing_status, price_per_gallon |-> price_per_gallon]

\* lines 54-75
_to_float(value) == IF value = "absent" THEN "none" ELSE value

\* Model.save(): DecimalField.get_db_prep_save raises decimal.InvalidOperation
\* for a number the column does not hold
SaveRaises(receipt) == receipt.price_per_gallon = "too_large"

\* what a call returns and leaves: the return value ("None" or "dict"), the
\* instance, the table
OcrOutcome(result, receipt, table) == [result |-> result, receipt |-> receipt, table |-> table]

\* lines 351-359: except Exception; the status is set on the instance and
\* saved, and a second exception is logged
Excepted(table, id, receipt) ==
    LET failed == [receipt EXCEPT !.processing_status = "failed"]
    IN  IF SaveRaises(failed)
        THEN OcrOutcome("None", failed, table)
        ELSE OcrOutcome("None", failed, [table EXCEPT ![id] = failed])

\* lines 214-217, 226-229, 233-236, 241-244, 288-291: the status 'failed' is
\* saved and None returned
FailedReturn(table, id, receipt) ==
    LET failed == [receipt EXCEPT !.processing_status = "failed"]
    IN  IF SaveRaises(failed)
        THEN Excepted(table, id, failed)
        ELSE OcrOutcome("None", failed, [table EXCEPT ![id] = failed])

\* lines 306-348: the fields and the status 'processed' are set, then
\* confidence_score is read, then the instance is saved
ProcessedReturn(table, id, receipt, data) ==
    LET processed == [receipt EXCEPT !.price_per_gallon = _to_float(data.price),
                                     !.processing_status = "processed"]
    IN  IF data.confidence = "word" THEN Excepted(table, id, processed)
        ELSE IF SaveRaises(processed) THEN Excepted(table, id, processed)
        ELSE OcrOutcome("dict", processed, [table EXCEPT ![id] = processed])

\* lines 163-359
process_receipt_with_gemini(table, id, env) ==
    LET receipt == table[id] IN
    IF ~receipt.has_image THEN OcrOutcome("None", receipt, table)
    ELSE IF ~env.readable THEN Excepted(table, id, receipt)
    ELSE IF ~env.key THEN FailedReturn(table, id, receipt)
    ELSE IF env.answer.error THEN FailedReturn(table, id, receipt)
    ELSE IF env.answer.status_code # 200 THEN FailedReturn(table, id, receipt)
    ELSE IF env.answer.body.kind = "not_json" THEN FailedReturn(table, id, receipt)
    ELSE LET data == receipt_extract_json_from_text(ReceiptContentText(env.answer.body))
         IN  IF ~Truthy(data) THEN FailedReturn(table, id, receipt)
             ELSE IF data.kind # "dict" THEN Excepted(table, id, receipt)
             ELSE ProcessedReturn(table, id, receipt, data)

\* lines 392-405: the rows with the status 'failed' in the order of the
\* model's Meta.ordering (newest first), each one processed
FailedRows(table) == {id \in 1..Len(table) : table[id].processing_status = "failed"}

RECURSIVE RetryFrom(_, _, _, _)
RetryFrom(table, ids, env, success_count) ==
    IF ids = {} THEN [table |-> table, success_count |-> success_count]
    ELSE LET id == CHOOSE i \in ids : \A j \in ids : i >= j
             out == process_receipt_with_gemini(table, id, env)
         IN  RetryFrom(out.table, ids \ {id}, env,
                       IF out.result # "None" THEN success_count + 1 ELSE success_count)

retry_failed_receipts(table, env) == RetryFrom(table, FailedRows(table), env, 0)

\* inputs
OcrDatas ==
    {NoData, OcrData("empty_dict", "absent", "absent"), OcrData("list", "absent", "absent")}
        \cup {OcrData("dict", p, c) : p \in {"absent", "fits", "too_large"},
                                      c \in {"absent", "number", "word"}}

OcrTexts ==
    {OcrText(TRUE, NoData, NoData, NoData, FALSE),
     OcrText(FALSE, NoData, NoData, NoData, FALSE),
     OcrText(FALSE, NoData, NoData, NoData, TRUE),
     OcrText(FALSE, NoData, OcrData("dict", "fits", "absent"), NoData, TRUE),
     OcrText(FALSE, NoData, NoData, OcrData("dict", "fits", "number"), FALSE)}
        \cup {Dumps(d) : d \in OcrDatas \ {NoData}}

OcrBodies ==
    {OcrBody(k, OcrText(TRUE, NoData, NoData, NoData, FALSE)) :
        k \in {"not_json", "list", "empty_dict", "dict"}}
        \cup {OcrBody("candidates", t) : t \in OcrTexts}

OcrAnswers ==
    {OcrAnswer(TRUE, 0, OcrBody("not_json", OcrText(TRUE, NoData, NoData, NoData, FALSE))),
     OcrAnswer(FALSE, 500, OcrBody("not_json", OcrText(TRUE, NoData, NoData, NoData, FALSE)))}
        \cup {OcrAnswer(FALSE, 200, b) : b \in OcrBodies}

OcrEnvs == {OcrEnv(k, r, a) : k \in BOOLEAN, r \in BOOLEAN, a \in OcrAnswers}

NoCall == [view |-> "none", id |-> 0, selected |-> {}, result |-> "None", success_count |-> 0,
           receipt |-> Receipt(FALSE, "pending", "none"), before |-> "pending"]

ReceiptsIdle ==
    /\ receiptTable = <<>>
    /\ ocr = NoCall

\* process_single_receipt, lines 379-389, on a receipt of the table
ProcessSingleReceipt ==
    /\ \E id \in 1..Len(receiptTable) : \E env \in OcrEnvs :
          LET out == process_receipt_with_gemini(receiptTable, id, env)
          IN  /\ receiptTable' = out.table
              /\ ocr' = [view |-> "process_single_receipt", id |-> id, selected |-> {id},
                         result |-> out.result, success_count |-> 0, receipt |-> out.receipt,
                         before |-> receiptTable[id].processing_status]
    /\ UNCHANGED beyondReceipts

\* retry_failed_receipts, lines 392-405
RetryFailedReceipts ==
    /\ receiptTable # <<>>
    /\ \E env \in OcrEnvs :
          LET out == retry_failed_receipts(receiptTable, env)
          IN  /\ receiptTable' = out.table
              /\ ocr' = [view |-> "retry_failed_receipts", id |-> 0,
                         selected |-> FailedRows(receiptTable),
                         result |-> "None", success_count |-> out.success_count,
                         receipt |-> Receipt(FALSE, "pending", "none"), before |-> "pending"]
    /\ UNCHANGED beyondReceipts

(***************************************************************************)
(* Specifications: one per component, each starting from the inputs of the *)
(* component and running it.                                               *)
(***************************************************************************)
Init ==
    /\ FallbackIdle /\ SampleIdle /\ ExtractIdle /\ GeminiIdle /\ FinderIdle /\ AuthIdle /\ RoutesIdle /\ ReceiptsIdle
    /\ \/ /\ \E n \in 0..MaxStops :
                request \in [stops : Seqs(ApiStops, n), key : GeminiKeys,
                             outcome : ApiOutcomes]
          /\ response = ResponsePending
          /\ fallbackRuns = 0
          /\ RoutingIdle
       \/ /\ ApiIdle
          /\ geoapify \in [answer : GeoAnswers, gets : {0}]
          /\ svc = [SvcEntry("", "", <<>>, FALSE) EXCEPT !.pc = "idle"]
          /\ \E n \in 0..MaxWaypoints :
                routeReq \in [waypoints : Seqs(Waypoints, n), optimize : BOOLEAN]
          /\ routeResp = RouteResponsePending

Next == ApiAiOptimizeRoute \/ ApiCalculateRoute

Spec == Init /\ [][Next]_vars

InitFallback ==
    /\ \E n \in 0..MaxStops : stops \in Seqs(FallbackStops, n)
    /\ fb = FallbackEntry
    /\ SampleIdle /\ ExtractIdle /\ GeminiIdle /\ ApiIdle /\ FinderIdle /\ RoutingIdle /\ AuthIdle /\ RoutesIdle /\ ReceiptsIdle

NextFallback == FallbackStart \/ FallbackSelect

SpecFallback == InitFallback /\ [][NextFallback]_vars

InitSample ==
    /\ \E n \in 0..MaxPoints : coordinates \in Seqs(RoutePoints, n)
    /\ max_samples \in 1..MaxSamplesArg
    /\ sampled = SampleEntry
    /\ FallbackIdle /\ ExtractIdle /\ GeminiIdle /\ ApiIdle /\ FinderIdle /\ RoutingIdle /\ AuthIdle /\ RoutesIdle /\ ReceiptsIdle

NextSample == SampleRoutePoints

SpecSample == InitSample /\ [][NextSample]_vars

InitExtract ==
    /\ IsExtractText(text)
    /\ extracted = ExtractEntry
    /\ FallbackIdle /\ SampleIdle /\ GeminiIdle /\ ApiIdle /\ FinderIdle /\ RoutingIdle /\ AuthIdle /\ RoutesIdle /\ ReceiptsIdle

NextExtract == ExtractJsonFromText

SpecExtract == InitExtract /\ [][NextExtract]_vars

InitGemini ==
    /\ \E stps \in GeminiStopLists, key \in GeminiKeys : gcall = GeminiEntry(stps, key)
    /\ llmRequests = 0
    /\ FallbackIdle /\ SampleIdle /\ ExtractIdle /\ ApiIdle /\ FinderIdle /\ RoutingIdle /\ AuthIdle /\ RoutesIdle /\ ReceiptsIdle

NextGemini == GeminiCall \/ GeminiAnswer

SpecGemini == InitGemini /\ [][NextGemini]_vars

InitFinder ==
    /\ FallbackIdle /\ ExtractIdle /\ GeminiIdle /\ ApiIdle /\ RoutingIdle /\ AuthIdle /\ RoutesIdle /\ ReceiptsIdle
    /\ \/ \* _sample_route_points called directly
          /\ \E n \in 0..MaxPoints : coordinates \in Seqs(RoutePoints, n)
          /\ max_samples \in 1..MaxSamplesArg
          /\ sampled = SampleEntry
          /\ FinderIdle
       \/ \* find_fuel_stations_along_route with no usable geometry: None, {},
          \* no 'type', another type (its coordinates are never read), no
          \* coordinates
          /\ \E g \in {Geometry("None", "", <<>>), Geometry("empty", "", <<>>),
                        Geometry("dict", "", Route(2, 0)), Geometry("dict", "Point", Route(1, 0)),
                        Geometry("dict", "MultiLineString", Route(2, 0)),
                        Geometry("dict", "LineString", <<>>)} :
                fcall = FinderEntry(g)
          /\ poi = <<Ok(<<Near>>), Ok(<<Near, Far>>)>>
          /\ poiQueries = <<>>
          /\ coordinates = <<>> /\ max_samples = 1 /\ sampled = [SampleEntry EXCEPT !.pc = "idle"]
       \/ \* find_fuel_stations_along_route with a LineString: the first two
          \* queries are answered freely, the others alike
          /\ \E n \in RouteLens \ {0}, detour \in {0, 2} :
                /\ detour <= n
                /\ fcall = FinderEntry(Geometry("dict", "LineString", Route(n, detour)))
                /\ \E a1 \in PoiAnswers, a2 \in PoiAnswers, rest \in RestAnswers :
                      /\ n < 2 => a2 = a1
                      /\ Len(_sample_route_points(Route(n, detour), FinderMaxSamples)) < 3
                            => rest = Ok(<<>>)
                      /\ poi = [i \in 1..Len(_sample_route_points(Route(n, detour), FinderMaxSamples))
                                  |-> IF i = 1 THEN a1 ELSE IF i = 2 THEN a2 ELSE rest]
          /\ poiQueries = <<>>
          /\ coordinates = <<>> /\ max_samples = 1 /\ sampled = [SampleEntry EXCEPT !.pc = "idle"]

NextFinder == SampleRoutePoints \/ FinderStart \/ FetchComplete \/ FinderFinish

SpecFinder == InitFinder /\ [][NextFinder]_vars

InitGateway ==
    /\ FallbackIdle /\ SampleIdle /\ ExtractIdle /\ GeminiIdle /\ ApiIdle /\ FinderIdle
    /\ AuthIdle /\ RoutesIdle /\ ReceiptsIdle
    /\ geoapify \in [answer : GeoAnswers, gets : {0}]
    /\ routeReq = [waypoints |-> <<>>, optimize |-> FALSE]
    /\ routeResp = RouteResponseIdle
    /\ \/ \E q \in Queries : svc = SvcEntry("search_places", q, <<>>, FALSE)
       \/ \E n \in 0..MaxWaypoints : \E w \in Seqs(Waypoints, n) : \E o \in BOOLEAN :
             svc = SvcEntry("calculate_route", "", w, o)

NextGateway == SearchPlaces \/ CalculateRoute

SpecGateway == InitGateway /\ [][NextGateway]_vars

InitAuth ==
    /\ FallbackIdle /\ SampleIdle /\ ExtractIdle /\ GeminiIdle /\ ApiIdle /\ FinderIdle
    /\ RoutingIdle /\ RoutesIdle /\ ReceiptsIdle
    /\ users \in UserTables
    /\ companies \in CompanyTables
    /\ session \in {""} \cup {u.username : u \in {v \in users : v.is_active}}
    /\ authReq \in LoginRequests \cup RegisterRequests \cup OtherRequests
    /\ authResp = AuthPending

NextAuth == LoginRegisterView

SpecAuth == InitAuth /\ [][NextAuth]_vars

InitRoutes ==
    /\ FallbackIdle /\ SampleIdle /\ ExtractIdle /\ GeminiIdle /\ ApiIdle /\ FinderIdle
    /\ RoutingIdle /\ AuthIdle /\ ReceiptsIdle
    /\ routeTable = <<>>
    /\ assignmentTable = <<>>
    /\ workers = [w \in Workers |-> IdleFrame]
    /\ mode = "serial"
    /\ taken = 0

NextRoutes == RoutesNext

SpecRoutes == InitRoutes /\ [][NextRoutes]_vars

InitRaces ==
    /\ FallbackIdle /\ SampleIdle /\ ExtractIdle /\ GeminiIdle /\ ApiIdle /\ FinderIdle
    /\ RoutingIdle /\ AuthIdle /\ ReceiptsIdle
    /\ routeTable = <<>>
    /\ assignmentTable = <<>>
    /\ workers = [w \in Workers |-> IdleFrame]
    /\ mode = "concurrent"
    /\ taken = 0

SpecRaces == InitRaces /\ [][NextRoutes]_vars

InitReceipts ==
    /\ FallbackIdle /\ SampleIdle /\ ExtractIdle /\ GeminiIdle /\ ApiIdle /\ FinderIdle
    /\ RoutingIdle /\ AuthIdle /\ RoutesIdle
    /\ \E n \in 1..MaxReceipts :
          receiptTable \in Seqs({Receipt(i, "pending", "none") : i \in BOOLEAN}, n)
    /\ ocr = NoCall

NextReceipts == ProcessSingleReceipt \/ RetryFailedReceipts

SpecReceipts == InitReceipts /\ [][NextReceipts]_vars

(***************************************************************************)
(* Properties.                                                             *)
(***************************************************************************)
\* order lists every id of 1..n exactly once and nothing else
IsPermutation(order, n) ==
    /\ Len(order) = n
    /\ \A id \in 1..n : Cardinality({j \in 1..Len(order) : order[j] = id}) = 1

\* C1: every request to api_ai_optimize_route with N >= 3 stops, whatever the
\* LLM path does, ends with a response that has success = true and an
\* optimal_order that is a permutation of 1..N; never in an unhandled error.
C1_EndpointAlwaysAnswersWithPermutation ==
    (response.pc = "done" /\ Len(request.stops) >= 3) =>
        /\ response.kind = "json"
        /\ response.success
        /\ response.has_order
        /\ IsPermutation(response.optimal_order, Len(request.stops))

\* C2: gemini_optimize_route returns success only if the extracted order has
\* length N and lists exactly 1..N; every extracted order with a duplicate, an
\* omission, an out-of-range id or a wrong length gives a failure result that
\* carries no order.
C2_OnlyExactPermutationsAccepted ==
    gcall.pc = "returned" =>
        /\ gcall.result.success =>
              /\ gcall.validated
              /\ IsPermutation(gcall.optimal_order, Len(gcall.stops))
              /\ gcall.result.optimal_order = gcall.optimal_order
        /\ (gcall.validated /\ ~IsPermutation(gcall.optimal_order, Len(gcall.stops))) =>
              /\ gcall.result.kind = "dict"
              /\ ~gcall.result.success
              /\ gcall.result.error # ""
              /\ ~gcall.result.has_order

\* C2 witness: an extracted order that names every id of 1..N but is one too
\* long (a duplicate) has been rejected.
C2_Witness ==
    /\ gcall.pc = "returned"
    /\ gcall.validated
    /\ Elems(gcall.optimal_order) = 1..Len(gcall.stops)
    /\ Len(gcall.optimal_order) = Len(gcall.stops) + 1
    /\ ~gcall.result.success

\* C3: the strategy flag of the response is truthful: a validated LLM order is
\* returned as it is without the fallback flag; when the LLM path rejected or
\* failed, the response carries the order of create_fallback_optimization for
\* the same stops, the fallback flag and success = true.
C3_StrategyFlagTruthful ==
    (response.pc = "done" /\ Len(request.stops) >= 3) =>
        LET llm == gemini_optimize_route(request.stops, request.key, request.outcome)
            heuristic == create_fallback_optimization(request.stops)
        IN  /\ response.kind = "json"
            /\ response.success
            /\ IF llm.pc = "returned" /\ llm.result.success
               THEN response.optimal_order = llm.result.optimal_order /\ ~response.fallback
               ELSE /\ heuristic.pc = "returned"
                    /\ response.optimal_order = heuristic.optimized
                    /\ response.fallback

\* the answers C4 lists: a transport error, a status other than 200, a 200
\* whose body is malformed or yields no text
AnswerIsFailure(outcome) ==
    \/ outcome.transport = "error"
    \/ outcome.transport = "ok" /\ outcome.status # 200
    \/ /\ outcome.transport = "ok" /\ outcome.status = 200
       /\ \/ outcome.shape \in {"not_json", "no_candidates", "no_content", "no_parts"}
          \/ /\ outcome.shape = "parts"
             /\ \A i \in 1..Len(outcome.texts) :
                    \A k \in 1..Len(outcome.texts[i]) : outcome.texts[i][k] \in Whitespace

\* C4: gemini_optimize_route never raises and never returns a value without a
\* success flag; for every transport error, non-200 status and 200 answer whose
\* body is malformed or yields no text it returns success = false with an
\* error string.
C4_AlwaysFlaggedResult ==
    (gcall.pc \in {"returned", "raised"} /\ gcall.outcome # NoOutcome) =>
        /\ gcall.pc = "returned"
        /\ gcall.result.kind = "dict"
        /\ AnswerIsFailure(gcall.outcome) =>
              ~gcall.result.success /\ gcall.result.error # ""

\* C6: called with fewer than 3 stops, or with no API credential, the function
\* returns an explicit failure result and sends no request to the gateway.
C6_ShortCircuitSendsNothing ==
    (gcall.pc # "entry" /\ (Len(gcall.stops) < 3 \/ gcall.key = "")) =>
        /\ gcall.pc = "returned"
        /\ gcall.result.kind = "dict"
        /\ ~gcall.result.success
        /\ gcall.result.error # ""
        /\ gcall.outcome = NoOutcome
        /\ llmRequests = 0

\* C6 witness: three stops, no credential, and the call has returned.
C6_Witness ==
    /\ gcall.pc = "returned"
    /\ Len(gcall.stops) >= 3
    /\ gcall.key = ""
    /\ ~gcall.result.success

\* ---- the grammar of a bracketed list of integers, stated on positions ----

\* t[i..j] is "[", one or more digits, commas or whitespace, "]"
IsArrayRun(t, i, j) ==
    /\ i + 1 < j /\ t[i] = "[" /\ t[j] = "]"
    /\ \A k \in (i + 1)..(j - 1) : t[k] \in Digits \cup {","} \cup Whitespace

\* t[i..j] is a JSON array of unsigned integers: integers separated by single
\* commas, JSON whitespace around them, no leading zero, or nothing at all
IsIntArrayJson(t, i, j) ==
    LET In  == (i + 1)..(j - 1)
        Dig == {k \in In : t[k] \in Digits}
        Com == {k \in In : t[k] = ","}
    IN  /\ i < j /\ t[i] = "[" /\ t[j] = "]"
        /\ \A k \in In : t[k] \in Digits \cup {","} \cup JsonWhitespace
        /\ \A c \in Com :
              /\ \E d \in Dig : d < c /\ \A c2 \in Com : ~(d < c2 /\ c2 < c)
              /\ \E d \in Dig : c < d /\ \A c2 \in Com : ~(c < c2 /\ c2 < d)
        /\ \A a \in Dig, b \in Dig :
              (a < b /\ \E k \in a..b : k \notin Dig) => \E c \in Com : a < c /\ c < b
        /\ \A a \in Dig : (t[a] = "0" /\ (a - 1) \notin Dig) => (a + 1) \notin Dig

RECURSIVE Pow10(_)
Pow10(n) == IF n = 0 THEN 1 ELSE 10 * Pow10(n - 1)

\* the number written by the digits t[s..e]
RECURSIVE DigitsNumber(_, _, _)
DigitsNumber(t, s, e) ==
    IF s > e THEN 0 ELSE DigitVal(t[s]) * Pow10(e - s) + DigitsNumber(t, s + 1, e)

\* the integers written in t[lo..hi], in order of appearance
IntsIn(t, lo, hi) ==
    LET Starts == {k \in lo..hi : t[k] \in Digits /\ (k = lo \/ t[k - 1] \notin Digits)}
        EndOf(s) == CHOOSE e \in s..hi :
                        /\ \A k \in s..e : t[k] \in Digits
                        /\ (e = hi \/ t[e + 1] \notin Digits)
        Nth(n) == CHOOSE x \in Starts : Cardinality({y \in Starts : y < x}) = n - 1
    IN  [n \in 1..Cardinality(Starts) |-> DigitsNumber(t, Nth(n), EndOf(Nth(n)))]

SetMin(S) == CHOOSE x \in S : \A y \in S : x <= y

\* the positions of t where a bracketed list that parses starts
ParsingListStarts(t) ==
    {i \in 1..Len(t) : \E j \in 1..Len(t) : IsIntArrayJson(t, i, j)}

\* the positions of t where \[[\d,\s]+\] matches
ArrayRunStarts(t) ==
    {i \in 1..Len(t) : \E j \in 1..Len(t) : IsArrayRun(t, i, j)}

\* the "]" that closes the bracket opened at i
CloseOf(t, i) == SetMin({j \in (i + 1)..Len(t) : t[j] = "]"})

\* C5 (as stated): the result is the first bracketed list of the text that
\* parses as a JSON array of integers, wherever it stands and whatever
\* surrounds it, earlier bracketed fragments that do not parse included; only
\* when no bracketed list parses is it the sequence of all integers of the text.
\* (Texts whose first parsing list is the empty list are left open.)
C5_FirstParsingListWins ==
    extracted.pc = "returned" =>
        LET P == ParsingListStarts(text)
        IN  IF P = {} THEN extracted.out = IntsIn(text, 1, Len(text))
            ELSE LET first == IntsIn(text, SetMin(P), CloseOf(text, SetMin(P)))
                 IN  first # <<>> => extracted.out = first

\* C5 (amended): only the first substring "[", digits/commas/whitespace, "]"
\* is looked at: when it parses as a JSON array the result is that array;
\* when there is none, or when the first one does not parse (a later one that
\* would parse is not tried), the result is the sequence of all integers of
\* the text in order of appearance.
C5_FirstArrayRunDecides ==
    extracted.pc = "returned" =>
        LET R == ArrayRunStarts(text)
        IN  IF R # {} /\ IsIntArrayJson(text, SetMin(R), CloseOf(text, SetMin(R)))
            THEN extracted.out = IntsIn(text, SetMin(R), CloseOf(text, SetMin(R)))
            ELSE extracted.out = IntsIn(text, 1, Len(text))

\* C5 witness: the first bracketed run does not parse, a later one does, and
\* the result is the list of all integers, not the later list.
C5_Witness ==
    /\ extracted.pc = "returned"
    /\ LET R == ArrayRunStarts(text)
       IN  /\ R # {}
           /\ ~IsIntArrayJson(text, SetMin(R), CloseOf(text, SetMin(R)))
           /\ \E i \in R :
                 /\ IsIntArrayJson(text, i, CloseOf(text, i))
                 /\ IntsIn(text, i, CloseOf(text, i)) # <<>>
                 /\ extracted.out # IntsIn(text, i, CloseOf(text, i))
           /\ extracted.out = IntsIn(text, 1, Len(text))

\* ---- create_fallback_optimization ----

PointOf(stop) == <<stop.lat, stop.lon>>

\* in order, every element after the first is, among the stops not placed
\* before it, one at minimum distance from its predecessor
IsNearestNeighbourOrder(order, stps) ==
    /\ order # <<>> /\ order[1] = 1
    /\ \A k \in 2..Len(order) :
          \A u \in 1..Len(stps) :
              u \notin {order[j] : j \in 1..(k - 1)} =>
                  /\ HaversineMetres(PointOf(stps[order[k - 1]]), PointOf(stps[u])) >= 0
                  /\ HaversineMetres(PointOf(stps[order[k - 1]]), PointOf(stps[order[k]]))
                        <= HaversineMetres(PointOf(stps[order[k - 1]]), PointOf(stps[u]))

\* C7: for every list of N >= 3 stops create_fallback_optimization returns an
\* order that starts with 1 and in which every later element is, among the
\* stops not yet placed, one at minimum distance from its predecessor.
C7_ReturnsNearestNeighbourOrder ==
    (fb.pc \in {"returned", "raised"} /\ Len(stops) >= 3) =>
        /\ fb.pc = "returned"
        /\ IsNearestNeighbourOrder(fb.optimized, stops)

\* C8: for every list of N >= 0 stops with coordinates the function
\* terminates, after exactly N - 1 selection steps when N >= 3, and returns a
\* permutation of 1..N.
C8_TerminatesWithPermutation ==
    /\ fb.steps <= Len(stops)
    /\ fb.pc \in {"returned", "raised"} =>
          /\ fb.pc = "returned"
          /\ IsPermutation(fb.optimized, Len(stops))
          /\ Len(stops) >= 3 => fb.steps = Len(stops) - 1

\* Whenever the function does return, what C7 and C8 say of the result holds.
FallbackResultWhenReturned ==
    fb.pc = "returned" =>
        /\ IsPermutation(fb.optimized, Len(stops))
        /\ Len(stops) >= 3 =>
              IsNearestNeighbourOrder(fb.optimized, stops) /\ fb.steps = Len(stops) - 1

\* C9: for N <= 2 stops the function returns the identity order, [] or [1] or
\* [1, 2], whatever the coordinates are, and computes no distance.
C9_ShortListsKeepTheirOrder ==
    (fb.pc # "entry" /\ Len(stops) <= 2) =>
        /\ fb.pc = "returned"
        /\ Len(fb.optimized) = Len(stops)
        /\ \A i \in 1..Len(stops) : fb.optimized[i] = i
        /\ fb.calls = 0
        /\ fb.steps = 0

\* C9 witness: two stops whose distance cannot even be computed, returned.
C9_Witness ==
    /\ fb.pc = "returned"
    /\ Len(stops) = 2
    /\ HaversineMetres(PointOf(stops[1]), PointOf(stops[2])) = DomainError
    /\ fb.optimized = <<1, 2>>

\* ---- _sample_route_points ----

\* C10: for every polyline and every maximum sample count M >= 1 the sampler
\* returns at most M coordinates, the appended final coordinate included.
C10_AtMostMaxSamples ==
    sampled.pc = "returned" => Len(sampled.out) <= max_samples

\* IsSubsequence(s, t): s is obtained from t by deleting elements (the
\* elements kept stay in t's order); greedy matching from the left
RECURSIVE IsSubsequence(_, _)
IsSubsequence(s, t) ==
    IF s = <<>> THEN TRUE
    ELSE IF t = <<>> THEN FALSE
    ELSE IF Head(s) = Head(t) THEN IsSubsequence(Tail(s), Tail(t))
    ELSE IsSubsequence(s, Tail(t))

\* C11: for every non-empty polyline (and sample count M >= 1) the sampler
\* returns a subsequence of the polyline in the polyline's order whose first
\* element is the first coordinate and whose last element equals the last
\* coordinate.
C11_SubsequenceWithEndpoints ==
    (sampled.pc = "returned" /\ coordinates # <<>>)
        => /\ IsSubsequence(sampled.out, coordinates)
           /\ sampled.out # <<>>
           /\ sampled.out[1] = coordinates[1]
           /\ sampled.out[Len(sampled.out)] = coordinates[Len(coordinates)]

\* C11 witness: a polyline longer than M whose stride skips the final
\* coordinate, which the sampler appended.
C11_Witness ==
    /\ sampled.pc = "returned"
    /\ Len(coordinates) > max_samples
    /\ (Len(coordinates) - 1) % SampleStep(Len(coordinates), max_samples) # 0
    /\ Len(sampled.out) = RangeCount(Len(coordinates), SampleStep(Len(coordinates), max_samples)) + 1
    /\ sampled.out[Len(sampled.out)] = coordinates[Len(coordinates)]

\* ---- find_fuel_stations_along_route ----

\* the call has passed its guards (the geometry was a LineString with
\* coordinates) and has ended
FinderEnded == fcall.pc \in {"returned", "raised"} /\ fcall.sample_points # <<>>

FinderReturned == fcall.pc = "returned" /\ fcall.sample_points # <<>>

\* the stations of the answers, in sample-point order and in the order of
\* each answer, as the tasks hand them to the gather
RECURSIVE Discovered(_)
Discovered(i) ==
    IF i = 0 THEN <<>> ELSE Discovered(i - 1) \o _fetch_fuel_stations_near_point(poi[i])

DiscoveredStations == Discovered(Len(fcall.sample_points))

\* the deduplication key of a station: latitude and longitude rounded to 6
\* decimals
KeyOf(station) == <<Round6(station.lat), Round6(station.lon)>>

\* the distance from a station to the nearest coordinate of the full polyline
DistanceToRoute(station) ==
    SetMin({calculate_distance_mm(station.lat, station.lon, c[2], c[1]) :
               c \in Elems(fcall.route_geometry.coordinates)})

SameStation(r, s) == r.name = s.name /\ r.lat = s.lat /\ r.lon = s.lon

\* C12: a polyline of at most M coordinates is returned unchanged by the
\* sampler, the empty polyline as the empty sequence, and the finder returns
\* the empty list for the empty polyline without raising.
C12_ShortPolylinesUnchanged ==
    /\ (sampled.pc = "returned" /\ Len(coordinates) <= max_samples)
          => sampled.out = coordinates
    /\ (/\ fcall.pc \notin {"idle", "entry"}
        /\ fcall.route_geometry.kind = "dict"
        /\ fcall.route_geometry.type = "LineString"
        /\ fcall.route_geometry.coordinates = <<>>)
          => fcall.pc = "returned" /\ fcall.fuel_stations = <<>>

\* C12 witness: the finder sampled a polyline of exactly 20 coordinates with
\* max_samples = 20 and got all of them back.
C12_Witness ==
    /\ fcall.pc = "returned"
    /\ sampled.pc = "returned"
    /\ max_samples = FinderMaxSamples
    /\ Len(coordinates) = FinderMaxSamples
    /\ sampled.out = coordinates
    /\ fcall.sample_points = coordinates

\* the other case of C12: the finder was called with the empty polyline
C12_WitnessEmptyPolyline ==
    /\ fcall.pc = "returned"
    /\ fcall.route_geometry.type = "LineString"
    /\ fcall.route_geometry.coordinates = <<>>
    /\ fcall.fuel_stations = <<>>

\* C13: when the geometry is missing, is not a LineString or has no
\* coordinates, the finder returns the empty list, raises nothing and sends no
\* query to the places gateway.
C13_InvalidGeometryReturnsEmpty ==
    (/\ fcall.pc \notin {"idle", "entry"}
     /\ \/ fcall.route_geometry.kind # "dict"
        \/ fcall.route_geometry.type # "LineString"
        \/ fcall.route_geometry.coordinates = <<>>)
        => /\ fcall.pc = "returned"
           /\ fcall.fuel_stations = <<>>
           /\ poiQueries = <<>>

\* C13 witness: a Point geometry with coordinates was refused.
C13_Witness ==
    /\ fcall.pc = "returned"
    /\ fcall.route_geometry.type = "Point"
    /\ fcall.route_geometry.coordinates # <<>>
    /\ poiQueries = <<>>

\* a query that failed: an exception, a status other than 200, a body that
\* does not parse
QueryFailed(answer) ==
    answer.transport # "ok" \/ answer.status # 200 \/ answer.body = "unparseable"

\* the answers of the queries that did not fail, the failed ones answering
\* with no station
NonFailedAlone ==
    [i \in 1..Len(fcall.sample_points) |->
        IF QueryFailed(poi[i]) THEN PoiAnswer("ok", 200, "object", <<>>) ELSE poi[i]]

\* C14: whichever queries of a call fail, the call completes and returns
\* exactly what the queries that did not fail produce on their own.
C14_FailedQueriesAreIsolated ==
    (FinderEnded /\ \E i \in 1..Len(fcall.sample_points) : QueryFailed(poi[i]))
        => /\ fcall.pc = "returned"
           /\ fcall.fuel_stations =
                 find_fuel_stations_along_route(fcall.route_geometry, NonFailedAlone).fuel_stations

\* What holds of the code for C14: the outcome of the call, a list or the
\* TypeError of a station without latitude or longitude, is the outcome the
\* queries that did not fail produce on their own.
FinderIsolatesFailedQueries ==
    (FinderEnded /\ \E i \in 1..Len(fcall.sample_points) : QueryFailed(poi[i]))
        => LET alone == find_fuel_stations_along_route(fcall.route_geometry, NonFailedAlone)
           IN  fcall.pc = alone.pc /\ fcall.fuel_stations = alone.fuel_stations

\* a state in which FinderIsolatesFailedQueries is about a failed query next
\* to a query that found a station
FinderIsolationWitness ==
    /\ FinderReturned
    /\ \E i \in 1..Len(fcall.sample_points) : QueryFailed(poi[i])
    /\ fcall.fuel_stations # <<>>

NoTwoWithOneKey ==
    \A i \in 1..Len(fcall.fuel_stations), j \in 1..Len(fcall.fuel_stations) :
        KeyOf(fcall.fuel_stations[i]) = KeyOf(fcall.fuel_stations[j]) => i = j

\* C15 (as stated): no two returned stations share a deduplication key, and
\* the station returned for a key is the first station with that key among
\* the collected responses in sample-point order.
C15_FirstOccurrenceKept ==
    FinderReturned
        => LET d == DiscoveredStations IN
           /\ NoTwoWithOneKey
           /\ \A i \in 1..Len(fcall.fuel_stations) :
                LET r     == fcall.fuel_stations[i]
                    first == SetMin({k \in 1..Len(d) : KeyOf(d[k]) = KeyOf(r)})
                IN  SameStation(r, d[first])

\* C15 (amended): no two returned stations share a deduplication key, and the
\* station returned for a key is the first station with that key among the
\* collected responses in sample-point order that lies within 1.5 km of the
\* route.
C15_FirstOccurrenceInRangeKept ==
    FinderReturned
        => LET d == DiscoveredStations IN
           /\ NoTwoWithOneKey
           /\ \A i \in 1..Len(fcall.fuel_stations) :
                LET r     == fcall.fuel_stations[i]
                    first == SetMin({k \in 1..Len(d) :
                                        /\ KeyOf(d[k]) = KeyOf(r)
                                        /\ DistanceToRoute(d[k]) <= RouteLimit})
                IN  SameStation(r, d[first])

\* C15 witness: two stations with one key were discovered, the first of them
\* farther than 1.5 km from the route and the second within it, and the
\* second was returned.
C15_Witness ==
    /\ FinderReturned
    /\ LET d == DiscoveredStations IN
       \E i \in 1..Len(fcall.fuel_stations), k \in 1..Len(d), m \in 1..Len(d) :
          /\ k < m
          /\ KeyOf(d[k]) = KeyOf(d[m])
          /\ DistanceToRoute(d[k]) > RouteLimit
          /\ SameStation(fcall.fuel_stations[i], d[m])

\* the discovered stations within 1.5 km of the route, and their keys
PassingStations ==
    LET d == DiscoveredStations IN
    {d[k] : k \in {m \in 1..Len(d) : DistanceToRoute(d[m]) <= RouteLimit}}

KeysOf(stations) == {KeyOf(station) : station \in stations}

ReturnedKeys == {KeyOf(fcall.fuel_stations[i]) : i \in 1..Len(fcall.fuel_stations)}

\* C16: every returned station carries its distance to the nearest coordinate
\* of the full polyline, and that distance is at most 1.5 km; when fewer than
\* 20 unique stations are within 1.5 km, every one of them is returned.
C16_WithinLimitOfFullPolyline ==
    FinderReturned
        => /\ \A i \in 1..Len(fcall.fuel_stations) :
                /\ fcall.fuel_stations[i].distance_from_route
                      = DistanceToRoute(fcall.fuel_stations[i])
                /\ fcall.fuel_stations[i].distance_from_route <= RouteLimit
           /\ LET passing == KeysOf(PassingStations) IN
              Cardinality(passing) < TopStations => passing \subseteq ReturnedKeys

\* C16 witness: a returned station is within 1.5 km of a coordinate the
\* sampler skipped and farther than that from every sampled point.
C16_Witness ==
    /\ FinderReturned
    /\ \E i \in 1..Len(fcall.fuel_stations) :
          \A k \in 1..Len(fcall.sample_points) :
              calculate_distance_mm(fcall.fuel_stations[i].lat, fcall.fuel_stations[i].lon,
                                    fcall.sample_points[k][2], fcall.sample_points[k][1])
                  > RouteLimit

\* C17: the returned list is in ascending order of distance to the route, has
\* at most 20 entries, and no station left out is nearer to the route than a
\* returned one.
C17_NearestTwentySorted ==
    FinderReturned
        => /\ Len(fcall.fuel_stations) <= TopStations
           /\ \A i \in 1..Len(fcall.fuel_stations), j \in 1..Len(fcall.fuel_stations) :
                i < j => fcall.fuel_stations[i].distance_from_route
                            <= fcall.fuel_stations[j].distance_from_route
           /\ LET returned == ReturnedKeys IN
              \A station \in PassingStations :
                KeyOf(station) \notin returned
                    => \A i \in 1..Len(fcall.fuel_stations) :
                          fcall.fuel_stations[i].distance_from_route
                              <= DistanceToRoute(station)

\* C17 witness: more than 20 unique stations were within 1.5 km of the route
\* and 20 were returned.
C17_Witness ==
    /\ FinderReturned
    /\ Cardinality(KeysOf(PassingStations)) > TopStations
    /\ Len(fcall.fuel_stations) = TopStations

\* C18: a routing request with fewer than 2 waypoints and an optimization
\* request with fewer than 3 stops are each rejected with success = false
\* before any gateway (routing, LLM) is called and before the fallback
\* heuristic runs, and the two rejections carry different messages.  (The
\* only GETs the routing gateway may have received by then are those of a
\* routing request, counted in routeResp.gets.)
C18_UsageErrorsRejectedBeforeAnyCall ==
    LET few_waypoints == routeResp.pc = "done" /\ Len(routeReq.waypoints) < 2
        few_stops == response.pc = "done" /\ Len(request.stops) < 3
    IN  /\ few_waypoints =>
              /\ routeResp.kind = "json"
              /\ ~routeResp.result.success
              /\ routeResp.result.has_error /\ routeResp.result.error # ""
              /\ routeResp.gets = 0 /\ geoapify.gets = 0
              /\ llmRequests = 0 /\ fallbackRuns = 0
        /\ few_stops =>
              /\ response.kind = "json"
              /\ ~response.success
              /\ ~response.has_order /\ response.error # ""
              /\ llmRequests = 0 /\ fallbackRuns = 0
              /\ geoapify.gets = routeResp.gets
        /\ (few_waypoints /\ few_stops) => routeResp.result.error # response.error

\* C18 witness: a routing request with one waypoint and an optimization
\* request without stops have both been rejected.
C18_Witness ==
    /\ routeResp.pc = "done" /\ Len(routeReq.waypoints) = 1
    /\ response.pc = "done" /\ Len(request.stops) < 3
    /\ ~routeResp.result.success /\ ~response.success

\* C18 witness: an optimization request with two stops has been rejected.
C18_WitnessTwoStops ==
    /\ response.pc = "done" /\ Len(request.stops) = 2
    /\ response.kind = "json" /\ ~response.success

\* the answer is an upstream failure: a network error, a status outside
\* 200..299, a body that is no JSON, or a response without features
UpstreamFailure(answer) ==
    \/ answer.transport = "error"
    \/ answer.status < 200 \/ answer.status > 299
    \/ answer.body # "features"
    \/ answer.features = <<>>

\* the service call returned the failure value of its method: the empty list
\* of search_places, the dict with success = false and an error string of
\* calculate_route
ReturnedFailure ==
    /\ svc.pc = "returned"
    /\ svc.method = "search_places" =>
          svc.result.kind = "list" /\ svc.result.results = <<>>
    /\ svc.method = "calculate_route" =>
          /\ svc.result.kind = "dict"
          /\ ~svc.result.success
          /\ svc.result.has_error /\ svc.result.error # ""

\* C19: for every upstream failure of the geocoding or routing gateway
\* (network error, non-2xx status, unparseable body, response without
\* features) search_places returns the empty list and calculate_route returns
\* a result with success = false and an error string; neither lets an
\* exception propagate to its caller.
C19_UpstreamFailuresBecomeFailureResults ==
    (svc.pc \in {"returned", "raised"} /\ UpstreamFailure(geoapify.answer)) =>
        ReturnedFailure

\* What holds of the two methods: a network error, a status of 400..599, a
\* body that is no JSON when the library raises a RequestException for it, and
\* a JSON object without the key features or with an empty list become the
\* failure value.
GatewayCatchesRequestExceptions ==
    LET answer == geoapify.answer
        caught == \/ answer.transport = "error"
                  \/ answer.status >= 400
                  \/ answer.body = "not_json" /\ answer.json_error = "RequestException"
                  \/ answer.body = "object"
                  \/ answer.body = "features" /\ answer.features = <<>>
    IN  (svc.pc \in {"returned", "raised"} /\ caught) => ReturnedFailure

\* a call whose GET met a 500 answer has returned the failure value
GatewayCatchesWitness ==
    /\ svc.pc = "returned" /\ svc.method = "calculate_route"
    /\ geoapify.answer.transport = "ok" /\ geoapify.answer.status = 500
    /\ svc.result.error = "Server Error"

\* the row of the user login() was called with
LoggedIn == CHOOSE u \in users : u.username = authResp.user

\* C20: a successful login POST redirects to /dashboard/driver/ exactly when
\* the authenticated user's role is 'driver', and to /dashboard/ for every
\* other role.
C20_LoginRedirectsByRole ==
    (authResp.pc = "done" /\ authResp.user # "") =>
        /\ authReq.method = "POST" /\ authReq.form_type = "login"
        /\ authResp.kind = "redirect"
        /\ session = authResp.user
        /\ authResp.location = "/dashboard/driver/" <=> LoggedIn.role = "driver"
        /\ LoggedIn.role # "driver" => authResp.location = "/dashboard/"

\* C20 witness: a driver has logged in and been sent to /dashboard/driver/.
C20_Witness ==
    /\ authResp.pc = "done" /\ authResp.user # ""
    /\ LoggedIn.role = "driver"
    /\ authResp.location = "/dashboard/driver/"

\* C20 witness: a user whose role is neither 'admin' nor 'driver' has logged
\* in and been sent to /dashboard/.
C20_WitnessOtherRole ==
    /\ authResp.pc = "done" /\ authResp.user # ""
    /\ LoggedIn.role \notin {"admin", "driver"}
    /\ authResp.location = "/dashboard/"

\* C21: every user account created through the registration form has role
\* 'admin' and is_staff = true, whatever field values were submitted;
\* registration never creates a driver.
C21_RegistrationCreatesAdmins ==
    [][\A u \in users' \ users :
          /\ authReq.form_type = "register"
          /\ u.username = authReq.username
          /\ u.role = "admin"
          /\ u.is_staff]_vars

\* C21 witness: a registration that submitted role = driver has created an
\* account.
C21_Witness ==
    /\ authResp.pc = "done"
    /\ authReq.form_type = "register" /\ authReq.role = "driver"
    /\ authResp.kind = "redirect" /\ authResp.location = "accounts:login"
    /\ \E u \in users : u.username = authReq.username /\ u.role = "admin"

\* the call has sent its queries
FinderQueried == fcall.pc \in {"gathering", "returned", "raised"}

\* C22: for every valid route geometry of any length, one call of
\* find_fuel_stations_along_route issues at most 20 point-of-interest
\* queries, exactly one per sampled point and none repeated.
C22_AtMostTwentyQueries ==
    FinderQueried
        => /\ Len(poiQueries) <= FinderMaxSamples
           /\ Len(poiQueries) = Len(fcall.sample_points)
           /\ \A i \in 1..Len(poiQueries) :
                 /\ poiQueries[i].lon = fcall.sample_points[i][1]
                 /\ poiQueries[i].lat = fcall.sample_points[i][2]

\* What holds of the code for C22: one query per sample point, in the order
\* of the sample points, and none sent again while the tasks complete.
FinderQueriesOncePerSample ==
    FinderQueried
        => /\ Len(poiQueries) = Len(fcall.sample_points)
           /\ \A i \in 1..Len(poiQueries) :
                 /\ poiQueries[i].lon = fcall.sample_points[i][1]
                 /\ poiQueries[i].lat = fcall.sample_points[i][2]

\* C23: for fixed answers of the queries, the outcome of
\* find_fuel_stations_along_route (members, which duplicate is kept, order) is
\* the same under every order in which the queries complete, and nothing is
\* deduplicated before every query has completed or failed.
C23_CompletionOrderDoesNotMatter ==
    /\ FinderEnded =>
          LET inorder == find_fuel_stations_along_route(fcall.route_geometry, poi)
          IN  fcall.pc = inorder.pc /\ fcall.fuel_stations = inorder.fuel_stations
    /\ (fcall.pc = "gathering" /\ \E i \in 1..Len(fcall.results) : ~fcall.results[i].done)
          => fcall.fuel_stations = <<>>
    /\ FinderEnded => Len(fcall.completion) = Len(fcall.sample_points)

\* C23 witness: the second query completed before the first, both found a
\* station with one key (Shell and the unnamed pump at the same place), and
\* the call has returned.
C23_Witness ==
    /\ FinderReturned
    /\ Len(fcall.completion) >= 2 /\ fcall.completion[1] = 2
    /\ poi[1] = Ok(<<Near, Far>>) /\ poi[2] = Ok(<<EdgeIn, NearUnnamed>>)
    /\ \E i \in 1..Len(fcall.fuel_stations) : fcall.fuel_stations[i].name = "Shell"

\* a feature of the answer lacks its latitude or its longitude
Malformed(feature) == feature.lat = None \/ feature.lon = None

\* the answers without their malformed features
WellFormedAlone ==
    [i \in 1..Len(fcall.sample_points) |->
        [poi[i] EXCEPT !.features = SelectSeq(@, LAMBDA f : ~Malformed(f))]]

\* C24: when a point-of-interest response contains a feature without
\* latitude or longitude, find_fuel_stations_along_route does not raise: the
\* call completes and returns the well-formed stations within 1.5 km.
C24_MalformedFeaturesAreSkipped ==
    (/\ FinderEnded
     /\ \E i \in 1..Len(fcall.sample_points) :
           \E k \in 1..Len(poi[i].features) : Malformed(poi[i].features[k]))
        => /\ fcall.pc = "returned"
           /\ fcall.fuel_stations =
                 find_fuel_stations_along_route(fcall.route_geometry,
                                                WellFormedAlone).fuel_stations

\* no request is being handled
Quiescent == \A w \in Workers : workers[w].pc \in {"idle", "done"}

\* the ids of the driver's assignments in status 'assigned' or 'in_progress'
ActiveOf(driver) ==
    {a \in 1..Len(assignmentTable) : /\ assignmentTable[a].driver = driver
                                      /\ assignmentTable[a].status \in ActiveStatuses}

AtMostOneActive == \A d \in RouteUsers : Cardinality(ActiveOf(d)) <= 1

\* C25: starting without assignments, after any sequence of assign_route,
\* start_route, complete_route and cancel_assignment requests handled one at
\* a time, every driver has at most one assignment in status 'assigned' or
\* 'in_progress'.
C25_OneActiveAssignmentPerDriver ==
    (mode = "serial" /\ Quiescent) => AtMostOneActive

\* C25 witness: a driver's route was started, a second route was assigned to
\* the driver, which cancelled the first, and the second is the only active
\* one.
C25_Witness ==
    /\ mode = "serial" /\ Quiescent
    /\ \E a, b \in 1..Len(assignmentTable) :
          /\ a < b
          /\ assignmentTable[a].driver = assignmentTable[b].driver
          /\ assignmentTable[a].status = "cancelled" /\ assignmentTable[a].actual_start > 0
          /\ assignmentTable[b].status \in ActiveStatuses

\* C26: the driver has at most one assignment in status 'assigned' or
\* 'in_progress' under every interleaving of the reads and writes of two
\* concurrent assign_route requests for the same driver.
C26_OneActiveUnderConcurrentAssigns ==
    (/\ mode = "concurrent" /\ taken = 2
     /\ \A w \in Workers : workers[w].req.view = "assign_route"
     /\ workers[1].req.driver_id = workers[2].req.driver_id)
        => Cardinality(ActiveOf(workers[1].req.driver_id)) <= 1

\* a change of status that the views allow
AllowedChange(old, new) ==
    \/ old = "assigned" /\ new = "in_progress"
    \/ old = "in_progress" /\ new = "completed"
    \/ old \in ActiveStatuses /\ new = "cancelled"

\* C27: the status of an assignment changes only along assigned ->
\* in_progress, in_progress -> completed and assigned or in_progress ->
\* cancelled; once it is 'completed' or 'cancelled' no request changes it
\* again.
C27_StatusChangesOnlyForward ==
    [][\A a \in 1..Len(assignmentTable) :
          assignmentTable'[a].status # assignmentTable[a].status
              => AllowedChange(assignmentTable[a].status, assignmentTable'[a].status)]_vars

\* the status a route has when it agrees with its assignment
RouteStatusFor(status) ==
    IF status \in ActiveStatuses THEN "active" ELSE status

\* C28: after every completed request, each route created by assign_route
\* agrees with its assignment: 'active' exactly when the assignment is
\* 'assigned' or 'in_progress', 'completed' exactly when it is 'completed',
\* 'cancelled' exactly when it is 'cancelled'.
C28_RouteAgreesWithAssignment ==
    Quiescent =>
        \A a \in 1..Len(assignmentTable) :
            routeTable[assignmentTable[a].route].status
                = RouteStatusFor(assignmentTable[a].status)

\* the status start_route and complete_route require
RequiredStatus(view) == IF view = "start_route" THEN "assigned" ELSE "in_progress"

\* C29: a start_route or complete_route request made by a user who is not the
\* assignment's driver, or while the assignment is not in the required
\* status, returns an error response and leaves the assignment (status,
\* actual_start, actual_end) and the route unchanged.
C29_RejectedRequestsChangeNothing ==
    [][\A w \in Workers :
          LET req == workers[w].req IN
          (/\ workers[w].pc = "entry" /\ workers'[w].pc # "entry"
           /\ req.view \in {"start_route", "complete_route"}
           /\ Found(assignmentTable, req.assignment_id)
           /\ \/ assignmentTable[req.assignment_id].driver # req.user
              \/ assignmentTable[req.assignment_id].status # RequiredStatus(req.view))
              => /\ workers'[w].pc = "done"
                 /\ ~workers'[w].resp.success
                 /\ workers'[w].resp.code \in {400, 403}
                 /\ assignmentTable' = assignmentTable
                 /\ routeTable' = routeTable]_vars

\* C29 witness: the driver asked to start a route that is already in
\* progress and got the answer 400.
C29_Witness ==
    \E w \in Workers :
        /\ workers[w].pc = "done" /\ workers[w].req.view = "start_route"
        /\ workers[w].resp.code = 400
        /\ Found(assignmentTable, workers[w].req.assignment_id)
        /\ assignmentTable[workers[w].req.assignment_id].status = "in_progress"
        /\ assignmentTable[workers[w].req.assignment_id].driver = workers[w].req.user

\* the last call was process_receipt_with_gemini on a receipt that has an image
ProcessedWithImage ==
    /\ ocr.view = "process_single_receipt"
    /\ receiptTable[ocr.id].has_image

\* C30: for a receipt that has an image, process_receipt_with_gemini returns
\* a non-None result exactly when it leaves the receipt with processing_status
\* 'processed', and whenever it returns None the receipt is left with
\* processing_status 'failed', the status by which retry_failed_receipts
\* selects the rows of the table.
C30_ReturnMatchesStoredStatus ==
    ProcessedWithImage =>
        /\ (ocr.result # "None") <=> (receiptTable[ocr.id].processing_status = "processed")
        /\ (ocr.result = "None") => (receiptTable[ocr.id].processing_status = "failed")
        /\ (ocr.result = "None") => (ocr.id \in FailedRows(receiptTable))

\* the same for the instance the function was given: its attribute is
\* 'processed' exactly when the result is not None, and 'failed' otherwise
ReturnMatchesInstanceStatus ==
    ProcessedWithImage =>
        /\ (ocr.result # "None") <=> (ocr.receipt.processing_status = "processed")
        /\ (ocr.result = "None") => (ocr.receipt.processing_status = "failed")

\* a call that returned None for a receipt with an image and stored 'failed'
ReturnMatchesInstanceWitness ==
    /\ ProcessedWithImage /\ ocr.result = "None"
    /\ receiptTable[ocr.id].processing_status = "failed"

\* retry_failed_receipts processes the rows stored with the status 'failed'
\* and no other
RetrySelectsFailedRows ==
    [][ocr'.view = "retry_failed_receipts" =>
          /\ ocr'.selected = FailedRows(receiptTable)
          /\ \A id \in 1..Len(receiptTable) :
                id \notin FailedRows(receiptTable) => receiptTable'[id] = receiptTable[id]]_vars

====
